---------------------------- MODULE Spec2Model ----------------------------
(***************************************************************************)
(* Registration subsystem of the event application                         *)
(* (src/backend/registration): the RegistrationService on top of the       *)
(* UserRepository / EventRepository, which keep users, event metadata,     *)
(* registration records and waitlist records as items of one key-value     *)
(* table keyed by (PK, SK).                                                *)
(*                                                                         *)
(* Strings are sequences of code points, so that key formatting            *)
(* (f'WAIT#{position:05d}#{user_id}'), begins_with and the ordering of     *)
(* sort keys are computed the way the store and Python compute them.       *)
(***************************************************************************)
EXTENDS Integers, Sequences, FiniteSets, TLC

(***************************************************************************)
(* Bounds of the model.                                                    *)
(***************************************************************************)
NumUsers == 3
MaxCapacity == 2
NumInputUsers == 2

(***************************************************************************)
(* Strings.                                                                *)
(***************************************************************************)
S_USER == <<85, 83, 69, 82, 35>>                     \* "USER#"
S_EVENT == <<69, 86, 69, 78, 84, 35>>                \* "EVENT#"
S_METADATA == <<77, 69, 84, 65, 68, 65, 84, 65>>     \* "METADATA"
S_REG == <<82, 69, 71, 35>>                          \* "REG#"
S_WAIT == <<87, 65, 73, 84, 35>>                     \* "WAIT#"
S_HASH == <<35>>                                     \* "#"
S_REGISTERED == <<82, 69, 71, 73, 83, 84, 69, 82, 69, 68>>          \* "REGISTERED"
S_WAITLISTED == <<87, 65, 73, 84, 76, 73, 83, 84, 69, 68>>          \* "WAITLISTED"

\* str.strip() removes leading and trailing whitespace; these are the ASCII ones.
Whitespace == {9, 10, 11, 12, 13, 28, 29, 30, 31, 32}

\* Mutant: only the empty string is refused (`not s` without `not s.strip()`).
IsBlank_empty_only(s) == s = <<>>

\* `not s or not s.strip()`
IsBlank(s) == \A i \in 1..Len(s) : s[i] \in Whitespace

\* s < t for Python str / DynamoDB string sort keys: decided by the first
\* position where they differ, a proper prefix being smaller.
StrLess(s, t) ==
    LET n == IF Len(s) < Len(t) THEN Len(s) ELSE Len(t)
        differ == {i \in 1..n : s[i] # t[i]}
    IN  IF differ = {} THEN Len(s) < Len(t)
        ELSE LET i == CHOOSE j \in differ : \A k \in differ : j <= k
             IN  s[i] < t[i]

\* Key('SK').begins_with(prefix)
BeginsWith(s, prefix) ==
    /\ Len(prefix) <= Len(s)
    /\ \A i \in 1..Len(prefix) : s[i] = prefix[i]

\* The decimal digits of n >= 0.
RECURSIVE Digits(_)
Digits(n) == IF n < 10 THEN <<48 + n>> ELSE Append(Digits(n \div 10), 48 + (n % 10))

\* The seq of k "0" characters.
Zeros(k) == [i \in 1..k |-> 48]

\* f'{position:05d}' for position >= 0: zero-padded to at least 5 digits.
PadWidth == 5
Format05d(position) ==
    LET d == Digits(position)
    IN  IF Len(d) >= PadWidth THEN d ELSE Zeros(PadWidth - Len(d)) \o d

(***************************************************************************)
(* Keys of the table.                                                      *)
(***************************************************************************)
UserPK(user_id) == S_USER \o user_id                       \* f'USER#{user_id}'
EventPK(event_id) == S_EVENT \o event_id                   \* f'EVENT#{event_id}'
RegSK(user_id) == S_REG \o user_id                         \* f'REG#{user_id}'
WaitSK(position, user_id) ==                               \* f'WAIT#{position:05d}#{user_id}'
    S_WAIT \o Format05d(position) \o S_HASH \o user_id

(***************************************************************************)
(* The table: a function from the primary key <<PK, SK>> to the item.      *)
(***************************************************************************)
VARIABLES
    table,      \* the DynamoDB table shared by both repositories
    last,       \* the last service call and how it ended
    recreated,  \* the event ids that create_event has been called for more than once
    pending,    \* per caller: the call it is in the middle of, when calls are
                \* run one gateway call at a time
    events_table \* the DynamoDB table of the event-CRUD module, keyed by eventId

vars == <<table, last, recreated, pending, events_table>>

\* table.put_item(Item=item): insert, or replace the item with the same key.
put_item(t, item) == (<<item.PK, item.SK>> :> item) @@ t

\* table.delete_item(Key=...): no effect when the key is absent.
delete_item(t, pk, sk) == [k \in (DOMAIN t) \ {<<pk, sk>>} |-> t[k]]

\* The items of a sequence of keys sorted by ascending sort key.
RECURSIVE SortBySK(_)
SortBySK(keys) ==
    IF keys = {} THEN <<>>
    ELSE LET k == CHOOSE a \in keys : \A b \in keys \ {a} : StrLess(a[2], b[2])
         IN  <<k>> \o SortBySK(keys \ {k})

\* table.query(PK = pk AND begins_with(SK, prefix)): the items in sort-key order.
query(t, pk, prefix) ==
    LET keys == {k \in DOMAIN t : k[1] = pk /\ BeginsWith(k[2], prefix)}
        sorted == SortBySK(keys)
    IN  [i \in 1..Len(sorted) |-> t[sorted[i]]]

(***************************************************************************)
(* In-memory values.                                                       *)
(***************************************************************************)
None == [none |-> TRUE]

Contains(seq, x) == \E i \in 1..Len(seq) : seq[i] = x

\* list.remove(x): drop the first occurrence of x.
\* Mutant: list.pop() for list.remove(x): the last element goes.
Remove_last(seq, x) == SubSeq(seq, 1, Len(seq) - 1)

Remove(seq, x) ==
    LET i == CHOOSE j \in 1..Len(seq) : seq[j] = x /\ \A k \in 1..(j - 1) : seq[k] # x
    IN  SubSeq(seq, 1, i - 1) \o SubSeq(seq, i + 1, Len(seq))

\* sorted(items, key=lambda x: x['SK']): a stable sort of a sequence of items.
RECURSIVE SortedBySK(_)
SortedBySK(items) ==
    IF items = <<>> THEN <<>>
    ELSE LET i == CHOOSE j \in 1..Len(items) :
                        /\ \A k \in 1..Len(items) : ~StrLess(items[k].SK, items[j].SK)
                        /\ \A k \in 1..(j - 1) : items[k].SK # items[j].SK
         IN  <<items[i]>> \o SortedBySK(SubSeq(items, 1, i - 1) \o SubSeq(items, i + 1, Len(items)))

\* Mutant: full only at exactly capacity.
is_full_exactly(event) == Len(event.registered_users) = event.capacity

\* Event.is_full
is_full(event) == Len(event.registered_users) >= event.capacity

\* Mutant: `<=` for `<`, so a full event still admits.
has_available_capacity_le(event) == Len(event.registered_users) <= event.capacity

\* Mutant: every event has a seat to offer.
has_available_capacity_always(event) == TRUE

\* Event.has_available_capacity
has_available_capacity(event) == Len(event.registered_users) < event.capacity

(***************************************************************************)
(* UserRepository.                                                         *)
(***************************************************************************)
\* Mutant: the record is keyed by the name of the user.
UserRepository_create_keyed_by_name(t, user) ==
    put_item(t, [PK |-> UserPK(user.name), SK |-> S_METADATA, entity_type |-> "user",
                 user_id |-> user.user_id, name |-> user.name])

UserRepository_create(t, user) ==
    put_item(t, [PK |-> UserPK(user.user_id), SK |-> S_METADATA, entity_type |-> "user",
                 user_id |-> user.user_id, name |-> user.name])

UserRepository_get(t, user_id) ==
    IF <<UserPK(user_id), S_METADATA>> \notin DOMAIN t THEN None
    ELSE LET item == t[<<UserPK(user_id), S_METADATA>>]
         IN  [user_id |-> item.user_id, name |-> item.name]

UserRepository_exists(t, user_id) == UserRepository_get(t, user_id) # None

(***************************************************************************)
(* EventRepository.                                                        *)
(***************************************************************************)
\* Mutant: the sort key is built from the event id, so every registration of
\* an event lands on the same key.
_add_registration_event_key(t, event_id, user_id) ==
    put_item(t, [PK |-> EventPK(event_id), SK |-> RegSK(event_id),
                 GSI1PK |-> UserPK(user_id), GSI1SK |-> S_REGISTERED,
                 entity_type |-> "registration", user_id |-> user_id,
                 event_id |-> event_id, status |-> "registered"])

_add_registration(t, event_id, user_id) ==
    put_item(t, [PK |-> EventPK(event_id), SK |-> RegSK(user_id),
                 GSI1PK |-> UserPK(user_id), GSI1SK |-> S_REGISTERED,
                 entity_type |-> "registration", user_id |-> user_id,
                 event_id |-> event_id, status |-> "registered"])

\* Mutant: positions stored one too high.
_add_to_waitlist_off_by_one(t, event_id, user_id, position) ==
    put_item(t, [PK |-> EventPK(event_id), SK |-> WaitSK(position + 1, user_id),
                 GSI1PK |-> UserPK(user_id), GSI1SK |-> S_WAITLISTED,
                 entity_type |-> "waitlist", user_id |-> user_id,
                 event_id |-> event_id, position |-> position + 1, status |-> "waitlisted"])

_add_to_waitlist(t, event_id, user_id, position) ==
    put_item(t, [PK |-> EventPK(event_id), SK |-> WaitSK(position, user_id),
                 GSI1PK |-> UserPK(user_id), GSI1SK |-> S_WAITLISTED,
                 entity_type |-> "waitlist", user_id |-> user_id,
                 event_id |-> event_id, position |-> position, status |-> "waitlisted"])

_remove_registration(t, event_id, user_id) ==
    delete_item(t, EventPK(event_id), RegSK(user_id))

\* Mutant: delete by a key built without the position, which matches no item.
_remove_from_waitlist_by_key(t, event_id, user_id) ==
    delete_item(t, EventPK(event_id), S_WAIT \o user_id)

\* Scan the event's waitlist items in sort-key order and delete the first one
\* that carries user_id.
_remove_from_waitlist(t, event_id, user_id) ==
    LET items == query(t, EventPK(event_id), S_WAIT)
        hits == {i \in 1..Len(items) : items[i].user_id = user_id}
    IN  IF hits = {} THEN t
        ELSE LET i == CHOOSE j \in hits : \A k \in hits : j <= k
             IN  delete_item(t, EventPK(event_id), items[i].SK)

_get_registered_users(t, event_id) ==
    LET items == query(t, EventPK(event_id), S_REG)
    IN  [i \in 1..Len(items) |-> items[i].user_id]

\* Mutant: the waitlist is ordered by user_id instead of by sort key.
RECURSIVE SortedByUserId(_)
SortedByUserId(items) ==
    IF items = <<>> THEN <<>>
    ELSE LET i == CHOOSE j \in 1..Len(items) :
                        \A k \in 1..Len(items) :
                            k = j \/ StrLess(items[j].user_id, items[k].user_id)
                               \/ (items[j].user_id = items[k].user_id /\ j < k)
         IN  <<items[i]>> \o SortedByUserId(SubSeq(items, 1, i - 1) \o SubSeq(items, i + 1, Len(items)))

_get_waitlist_by_user_id(t, event_id) ==
    LET items == SortedByUserId(query(t, EventPK(event_id), S_WAIT))
    IN  [i \in 1..Len(items) |-> items[i].user_id]

_get_waitlist(t, event_id) ==
    LET items == SortedBySK(query(t, EventPK(event_id), S_WAIT))
    IN  [i \in 1..Len(items) |-> items[i].user_id]

\* Mutant: the waitlist flag is not read from the item and defaults to True.
EventRepository_get_flag_default(t, event_id) ==
    IF <<EventPK(event_id), S_METADATA>> \notin DOMAIN t THEN None
    ELSE LET item == t[<<EventPK(event_id), S_METADATA>>]
         IN  [event_id |-> item.event_id, name |-> item.name, capacity |-> item.capacity,
              waitlist_enabled |-> TRUE,
              registered_users |-> _get_registered_users(t, event_id),
              waitlist |-> _get_waitlist(t, event_id)]

EventRepository_get(t, event_id) ==
    IF <<EventPK(event_id), S_METADATA>> \notin DOMAIN t THEN None
    ELSE LET item == t[<<EventPK(event_id), S_METADATA>>]
         IN  [event_id |-> item.event_id, name |-> item.name, capacity |-> item.capacity,
              waitlist_enabled |-> item.waitlist_enabled,
              registered_users |-> _get_registered_users(t, event_id),
              waitlist |-> _get_waitlist(t, event_id)]

\* for user_id in event.registered_users: self._add_registration(...)
RECURSIVE AddRegistrations(_, _, _)
AddRegistrations(t, event_id, users) ==
    IF users = <<>> THEN t
    ELSE AddRegistrations(_add_registration(t, event_id, Head(users)), event_id, Tail(users))

\* for position, user_id in enumerate(waitlist): self._add_to_waitlist(...)
\* (position counts from `first`).
RECURSIVE AddWaitlist(_, _, _, _)
AddWaitlist(t, event_id, users, first) ==
    IF users = <<>> THEN t
    ELSE AddWaitlist(_add_to_waitlist(t, event_id, Head(users), first),
                     event_id, Tail(users), first + 1)

EventRepository_create(t, event) ==
    LET item == [PK |-> EventPK(event.event_id), SK |-> S_METADATA, entity_type |-> "event",
                 event_id |-> event.event_id, name |-> event.name,
                 capacity |-> event.capacity, waitlist_enabled |-> event.waitlist_enabled,
                 registered_count |-> Len(event.registered_users),
                 waitlist_count |-> Len(event.waitlist)]
        t1 == put_item(t, item)
        t2 == AddRegistrations(t1, event.event_id, event.registered_users)
    IN  AddWaitlist(t2, event.event_id, event.waitlist, 0)

\* table.query(IndexName='GSI1', GSI1PK = pk AND GSI1SK = sk): the items that
\* carry both index attributes with these values. The index key is not unique
\* and the items of one key come in no order the code controls: a set.
GSI1_query(t, pk, sk) ==
    {t[k] : k \in {k \in DOMAIN t : /\ {"GSI1PK", "GSI1SK"} \subseteq DOMAIN t[k]
                                    /\ t[k].GSI1PK = pk
                                    /\ t[k].GSI1SK = sk}}

\* [self.get(item['event_id']) for item in Items], without the None's.
EventsOf(t, items) ==
    {EventRepository_get(t, item.event_id) : item \in items} \ {None}

get_events_by_registered_user(t, user_id) ==
    EventsOf(t, GSI1_query(t, UserPK(user_id), S_REGISTERED))

\* Mutant: the waitlist lookup queries the 'REGISTERED' index key.
get_events_by_waitlisted_user_registered_key(t, user_id) ==
    EventsOf(t, GSI1_query(t, UserPK(user_id), S_REGISTERED))

get_events_by_waitlisted_user(t, user_id) ==
    EventsOf(t, GSI1_query(t, UserPK(user_id), S_WAITLISTED))

\* Mutant: update writes the event as create does, membership records included.
EventRepository_update_rewrites_members(t, event) == EventRepository_create(t, event)

\* update_item(Key, 'SET registered_count = :rc, waitlist_count = :wc'): an upsert
\* that touches these two attributes only.
EventRepository_update(t, event) ==
    LET key == <<EventPK(event.event_id), S_METADATA>>
    IN  IF key \in DOMAIN t
        THEN [t EXCEPT ![key] = [@ EXCEPT !.registered_count = Len(event.registered_users),
                                          !.waitlist_count = Len(event.waitlist)]]
        ELSE put_item(t, [PK |-> key[1], SK |-> key[2],
                          registered_count |-> Len(event.registered_users),
                          waitlist_count |-> Len(event.waitlist)])


(***************************************************************************)
(* Gateway calls.  A service method reads the table, decides, and issues a *)
(* sequence of repository calls; the calls are separate store operations   *)
(* and are applied one after the other.                                    *)
(***************************************************************************)
Call(fn, event_id, user_id, position, obj) ==
    [fn |-> fn, event_id |-> event_id, user_id |-> user_id, position |-> position, obj |-> obj]

Apply(t, c) ==
    CASE c.fn = "UserRepository.create" -> UserRepository_create(t, c.obj)
      [] c.fn = "EventRepository.create" -> EventRepository_create(t, c.obj)
      [] c.fn = "EventRepository.update" -> EventRepository_update(t, c.obj)
      [] c.fn = "_add_registration" -> _add_registration(t, c.event_id, c.user_id)
      [] c.fn = "_remove_registration" -> _remove_registration(t, c.event_id, c.user_id)
      [] c.fn = "_add_to_waitlist" -> _add_to_waitlist(t, c.event_id, c.user_id, c.position)
      [] c.fn = "_remove_from_waitlist" -> _remove_from_waitlist(t, c.event_id, c.user_id)

\* The table after the calls, applied in order.
RECURSIVE Run(_, _)
Run(t, calls) == IF calls = <<>> THEN t ELSE Run(Apply(t, Head(calls)), Tail(calls))

\* How a service method ends: the value it returns or the exception it raises,
\* and the repository calls it has issued by then.
Returns(value, calls) == [raised |-> FALSE, result |-> value, detail |-> "", calls |-> calls]
Raises(exception, detail) == [raised |-> TRUE, result |-> exception, detail |-> detail, calls |-> <<>>]

(***************************************************************************)
(* RegistrationService.                                                    *)
(***************************************************************************)
get_user_registrations(t, user_id) == get_events_by_registered_user(t, user_id)

get_user_waitlists(t, user_id) == get_events_by_waitlisted_user(t, user_id)

\* A read that returns value: no repository write is asked for.
Reading(value) ==
    [raised |-> FALSE, result |-> "value", detail |-> "", calls |-> <<>>, value |-> value]

\* Mutant: the read takes the first registered user off the event.
get_event_registrations_destructive(t, event_id) ==
    LET event == EventRepository_get(t, event_id) IN
    IF event = None THEN Raises("EntityNotFoundError", "Event") @@ [value |-> None]
    ELSE IF event.registered_users = <<>> THEN Reading(event.registered_users)
    ELSE [Reading(event.registered_users) EXCEPT
            !.calls = <<Call("_remove_registration", event_id, Head(event.registered_users), 0, None)>>]

\* Mutant: the waitlist is returned after the registered users.
get_event_registrations_with_waitlist(t, event_id) ==
    LET event == EventRepository_get(t, event_id) IN
    IF event = None THEN Raises("EntityNotFoundError", "Event") @@ [value |-> None]
    ELSE Reading(event.registered_users \o event.waitlist)

get_event_registrations(t, event_id) ==
    LET event == EventRepository_get(t, event_id) IN
    IF event = None THEN Raises("EntityNotFoundError", "Event") @@ [value |-> None]
    ELSE Reading(event.registered_users)

\* Mutant: the record is written before the User is validated.
create_user_write_then_validate(t, user_id, name) ==
    LET user == [user_id |-> user_id, name |-> name]
        written == <<Call("UserRepository.create", <<>>, user_id, 0, user)>>
    IN  IF UserRepository_exists(t, user_id) THEN Raises("DuplicateUserError", "")
        ELSE IF IsBlank(user_id)
             THEN [Raises("ValidationError", "userId cannot be empty") EXCEPT !.calls = written]
        ELSE IF IsBlank(name)
             THEN [Raises("ValidationError", "name cannot be empty") EXCEPT !.calls = written]
        ELSE Returns("User", written)

\* Mutant: the duplicate check is missing, so a second create_user overwrites.
create_user_no_duplicate_check(t, user_id, name) ==
    IF IsBlank(user_id) THEN Raises("ValidationError", "userId cannot be empty")
    ELSE IF IsBlank(name) THEN Raises("ValidationError", "name cannot be empty")
    ELSE LET user == [user_id |-> user_id, name |-> name]
         IN  Returns("User", <<Call("UserRepository.create", <<>>, user_id, 0, user)>>)

create_user(t, user_id, name) ==
    IF UserRepository_exists(t, user_id) THEN Raises("DuplicateUserError", "")
    ELSE IF IsBlank(user_id) THEN Raises("ValidationError", "userId cannot be empty")
    ELSE IF IsBlank(name) THEN Raises("ValidationError", "name cannot be empty")
    ELSE LET user == [user_id |-> user_id, name |-> name]
         IN  Returns("User", <<Call("UserRepository.create", <<>>, user_id, 0, user)>>)

create_event(t, event_id, name, capacity, waitlist_enabled) ==
    IF capacity <= 0 THEN Raises("ValidationError", "capacity must be greater than zero")
    ELSE LET event == [event_id |-> event_id, name |-> name, capacity |-> capacity,
                       waitlist_enabled |-> waitlist_enabled,
                       registered_users |-> <<>>, waitlist |-> <<>>]
         IN  Returns("Event", <<Call("EventRepository.create", event_id, <<>>, 0, event)>>)

\* Mutant: only registered_users is checked.
already_member_registered_only(event, user_id) ==
    IF Contains(event.registered_users, user_id) THEN "registered" ELSE ""

\* Lines 111-117: the membership checks; "" when the user is not a member.
already_member(event, user_id) ==
    IF Contains(event.registered_users, user_id) THEN "registered"
    ELSE IF Contains(event.waitlist, user_id) THEN "waitlist"
    ELSE ""

\* Mutant: the waitlist branch is taken whatever waitlist_enabled says.
admit_ignoring_flag(event, user_id) ==
    IF has_available_capacity(event) THEN
        LET event1 == [event EXCEPT !.registered_users = Append(@, user_id)]
        IN  Returns("registered",
                    << Call("_add_registration", event.event_id, user_id, 0, None),
                       Call("EventRepository.update", event.event_id, <<>>, 0, event1) >>)
    ELSE
        LET event1 == [event EXCEPT !.waitlist = Append(@, user_id)]
        IN  Returns("waitlisted",
                    << Call("_add_to_waitlist", event.event_id, user_id,
                            Len(event1.waitlist) - 1, None),
                       Call("EventRepository.update", event.event_id, <<>>, 0, event1) >>)

\* Mutant: the waitlist is tried before the seats.
admit_waitlist_first(event, user_id) ==
    IF event.waitlist_enabled THEN
        LET event1 == [event EXCEPT !.waitlist = Append(@, user_id)]
        IN  Returns("waitlisted",
                    << Call("_add_to_waitlist", event.event_id, user_id,
                            Len(event1.waitlist) - 1, None),
                       Call("EventRepository.update", event.event_id, <<>>, 0, event1) >>)
    ELSE IF has_available_capacity(event) THEN
        LET event1 == [event EXCEPT !.registered_users = Append(@, user_id)]
        IN  Returns("registered",
                    << Call("_add_registration", event.event_id, user_id, 0, None),
                       Call("EventRepository.update", event.event_id, <<>>, 0, event1) >>)
    ELSE Raises("EventFullError", "")

\* Lines 119-140: a seat, else the tail of the waitlist, else EventFullError.
admit(event, user_id) ==
    IF has_available_capacity(event) THEN
        LET event1 == [event EXCEPT !.registered_users = Append(@, user_id)]
        IN  Returns("registered",
                    << Call("_add_registration", event.event_id, user_id, 0, None),
                       Call("EventRepository.update", event.event_id, <<>>, 0, event1) >>)
    ELSE IF event.waitlist_enabled THEN
        LET event1 == [event EXCEPT !.waitlist = Append(@, user_id)]
        IN  Returns("waitlisted",
                    << Call("_add_to_waitlist", event.event_id, user_id,
                            Len(event1.waitlist) - 1, None),
                       Call("EventRepository.update", event.event_id, <<>>, 0, event1) >>)
    ELSE Raises("EventFullError", "")

\* Lines 106-140 of register_user: what follows event_repo.get, on the event
\* it has returned.
register_user_on_event(event, user_id) ==
    IF event = None THEN Raises("EntityNotFoundError", "Event")
    ELSE IF already_member(event, user_id) # ""
         THEN Raises("AlreadyRegisteredError", already_member(event, user_id))
         ELSE admit(event, user_id)

\* Mutant: the user-existence check is missing.
register_user_no_user_check(t, user_id, event_id) ==
    LET event == EventRepository_get(t, event_id) IN
    IF event = None THEN Raises("EntityNotFoundError", "Event")
    ELSE IF already_member(event, user_id) # ""
         THEN Raises("AlreadyRegisteredError", already_member(event, user_id))
         ELSE admit(event, user_id)

\* Mutant: the event is looked up before the user.
register_user_event_first(t, user_id, event_id) ==
    LET event == EventRepository_get(t, event_id) IN
    IF event = None THEN Raises("EntityNotFoundError", "Event")
    ELSE IF ~UserRepository_exists(t, user_id) THEN Raises("EntityNotFoundError", "User")
    ELSE IF already_member(event, user_id) # ""
         THEN Raises("AlreadyRegisteredError", already_member(event, user_id))
         ELSE admit(event, user_id)

register_user(t, user_id, event_id) ==
    IF ~UserRepository_exists(t, user_id) THEN Raises("EntityNotFoundError", "User")
    ELSE LET event == EventRepository_get(t, event_id) IN
         IF event = None THEN Raises("EntityNotFoundError", "Event")
         ELSE IF already_member(event, user_id) # ""
              THEN Raises("AlreadyRegisteredError", already_member(event, user_id))
              ELSE admit(event, user_id)

\* for i, remaining_user_id in enumerate(event.waitlist):
\*     _remove_from_waitlist(event_id, remaining_user_id)
\*     _add_to_waitlist(event_id, remaining_user_id, i)
RECURSIVE ReindexFrom(_, _, _)
ReindexFrom(event_id, waitlist, i) ==
    IF waitlist = <<>> THEN <<>>
    ELSE << Call("_remove_from_waitlist", event_id, Head(waitlist), 0, None),
            Call("_add_to_waitlist", event_id, Head(waitlist), i, None) >>
         \o ReindexFrom(event_id, Tail(waitlist), i + 1)

\* Mutant: the re-add without the delete of the old record.
RECURSIVE ReindexNoDeleteFrom(_, _, _)
ReindexNoDeleteFrom(event_id, waitlist, i) ==
    IF waitlist = <<>> THEN <<>>
    ELSE <<Call("_add_to_waitlist", event_id, Head(waitlist), i, None)>>
         \o ReindexNoDeleteFrom(event_id, Tail(waitlist), i + 1)

ReindexNoDelete(event_id, waitlist) == ReindexNoDeleteFrom(event_id, waitlist, 0)

\* Mutant: each remaining member is re-added before its old record is deleted.
RECURSIVE ReindexAddFirstFrom(_, _, _)
ReindexAddFirstFrom(event_id, waitlist, i) ==
    IF waitlist = <<>> THEN <<>>
    ELSE << Call("_add_to_waitlist", event_id, Head(waitlist), i, None),
            Call("_remove_from_waitlist", event_id, Head(waitlist), 0, None) >>
         \o ReindexAddFirstFrom(event_id, Tail(waitlist), i + 1)

ReindexAddFirst(event_id, waitlist) == ReindexAddFirstFrom(event_id, waitlist, 0)

Reindex(event_id, waitlist) == ReindexFrom(event_id, waitlist, 0)

\* Mutant: the promoted user is the tail of the waitlist (pop() for pop(0)).
unregister_registered_pop_last(event, user_id) ==
    LET event1 == [event EXCEPT !.registered_users = Remove(@, user_id)]
        first == <<Call("_remove_registration", event.event_id, user_id, 0, None)>>
    IN  IF event1.waitlist # <<>> THEN
            LET promoted_user_id == event1.waitlist[Len(event1.waitlist)]
                event2 == [event1 EXCEPT !.waitlist = SubSeq(@, 1, Len(@) - 1),
                                         !.registered_users = Append(@, promoted_user_id)]
            IN  Returns("None",
                    first
                    \o << Call("_remove_from_waitlist", event.event_id, promoted_user_id, 0, None),
                          Call("_add_registration", event.event_id, promoted_user_id, 0, None) >>
                    \o Reindex(event.event_id, event2.waitlist)
                    \o <<Call("EventRepository.update", event.event_id, <<>>, 0, event2)>>)
        ELSE Returns("None",
                    first \o <<Call("EventRepository.update", event.event_id, <<>>, 0, event1)>>)

\* Mutant: the registered user leaves and nobody is promoted.
unregister_registered_no_promotion(event, user_id) ==
    LET event1 == [event EXCEPT !.registered_users = Remove(@, user_id)]
    IN  Returns("None",
                << Call("_remove_registration", event.event_id, user_id, 0, None),
                   Call("EventRepository.update", event.event_id, <<>>, 0, event1) >>)

\* Mutant: the promoted user's registration is written before its waitlist
\* record is deleted.
unregister_registered_add_before_remove(event, user_id) ==
    LET event1 == [event EXCEPT !.registered_users = Remove(@, user_id)]
        first == <<Call("_remove_registration", event.event_id, user_id, 0, None)>>
    IN  IF event1.waitlist # <<>> THEN
            LET promoted_user_id == Head(event1.waitlist)
                event2 == [event1 EXCEPT !.waitlist = Tail(@),
                                         !.registered_users = Append(@, promoted_user_id)]
            IN  Returns("None",
                    first
                    \o << Call("_add_registration", event.event_id, promoted_user_id, 0, None),
                          Call("_remove_from_waitlist", event.event_id, promoted_user_id, 0, None) >>
                    \o Reindex(event.event_id, event2.waitlist)
                    \o <<Call("EventRepository.update", event.event_id, <<>>, 0, event2)>>)
        ELSE Returns("None",
                    first \o <<Call("EventRepository.update", event.event_id, <<>>, 0, event1)>>)

\* Lines 160-178: a registered user leaves; the head of the waitlist is promoted.
unregister_registered(event, user_id) ==
    LET event1 == [event EXCEPT !.registered_users = Remove(@, user_id)]
        first == <<Call("_remove_registration", event.event_id, user_id, 0, None)>>
    IN  IF event1.waitlist # <<>> THEN
            LET promoted_user_id == Head(event1.waitlist)
                event2 == [event1 EXCEPT !.waitlist = Tail(@),
                                         !.registered_users = Append(@, promoted_user_id)]
            IN  Returns("None",
                    first
                    \o << Call("_remove_from_waitlist", event.event_id, promoted_user_id, 0, None),
                          Call("_add_registration", event.event_id, promoted_user_id, 0, None) >>
                    \o Reindex(event.event_id, event2.waitlist)
                    \o <<Call("EventRepository.update", event.event_id, <<>>, 0, event2)>>)
        ELSE Returns("None",
                    first \o <<Call("EventRepository.update", event.event_id, <<>>, 0, event1)>>)

\* Mutant: the record of the leaving user is deleted and the others keep their
\* old positions.
unregister_waitlisted_no_reindex(event, user_id) ==
    LET event1 == [event EXCEPT !.waitlist = Remove(@, user_id)]
    IN  Returns("None",
                <<Call("_remove_from_waitlist", event.event_id, user_id, 0, None)>>
                \o <<Call("EventRepository.update", event.event_id, <<>>, 0, event1)>>)

\* Mutant: when a waitlisted user leaves, the whole waitlist is dropped.
RECURSIVE RemoveAllFromWaitlist(_, _)
RemoveAllFromWaitlist(event_id, waitlist) ==
    IF waitlist = <<>> THEN <<>>
    ELSE <<Call("_remove_from_waitlist", event_id, Head(waitlist), 0, None)>>
         \o RemoveAllFromWaitlist(event_id, Tail(waitlist))

unregister_waitlisted_clears(event, user_id) ==
    LET event1 == [event EXCEPT !.waitlist = <<>>]
    IN  Returns("None",
                RemoveAllFromWaitlist(event.event_id, event.waitlist)
                \o <<Call("EventRepository.update", event.event_id, <<>>, 0, event1)>>)

\* Mutant: the reindexing loop runs twice.
unregister_waitlisted_reindex_twice(event, user_id) ==
    LET event1 == [event EXCEPT !.waitlist = Remove(@, user_id)]
    IN  Returns("None",
                <<Call("_remove_from_waitlist", event.event_id, user_id, 0, None)>>
                \o Reindex(event.event_id, event1.waitlist)
                \o Reindex(event.event_id, event1.waitlist)
                \o <<Call("EventRepository.update", event.event_id, <<>>, 0, event1)>>)

\* Lines 182-191: a waitlisted user leaves.
unregister_waitlisted(event, user_id) ==
    LET event1 == [event EXCEPT !.waitlist = Remove(@, user_id)]
    IN  Returns("None",
                <<Call("_remove_from_waitlist", event.event_id, user_id, 0, None)>>
                \o Reindex(event.event_id, event1.waitlist)
                \o <<Call("EventRepository.update", event.event_id, <<>>, 0, event1)>>)

\* Mutant: a user who is no member is let through without an error.
unregister_user_silent(t, user_id, event_id) ==
    LET event == EventRepository_get(t, event_id) IN
    IF event = None THEN Raises("EntityNotFoundError", "Event")
    ELSE IF Contains(event.registered_users, user_id) THEN unregister_registered(event, user_id)
    ELSE IF Contains(event.waitlist, user_id) THEN unregister_waitlisted(event, user_id)
    ELSE Returns("None", <<>>)

\* Mutant: unregister_user looks the user up first, as register_user does.
unregister_user_with_user_check(t, user_id, event_id) ==
    LET event == EventRepository_get(t, event_id) IN
    IF ~UserRepository_exists(t, user_id) THEN Raises("EntityNotFoundError", "User")
    ELSE IF event = None THEN Raises("EntityNotFoundError", "Event")
    ELSE IF Contains(event.registered_users, user_id) THEN unregister_registered(event, user_id)
    ELSE IF Contains(event.waitlist, user_id) THEN unregister_waitlisted(event, user_id)
    ELSE Raises("NotRegisteredError", "")

unregister_user(t, user_id, event_id) ==
    LET event == EventRepository_get(t, event_id) IN
    IF event = None THEN Raises("EntityNotFoundError", "Event")
    ELSE IF Contains(event.registered_users, user_id) THEN unregister_registered(event, user_id)
    ELSE IF Contains(event.waitlist, user_id) THEN unregister_waitlisted(event, user_id)
    ELSE Raises("NotRegisteredError", "")

(***************************************************************************)
(* Inputs.                                                                 *)
(***************************************************************************)
UserId(i) == <<96 + i>>                              \* "a", "b", "c", ...
UserIds == {UserId(i) : i \in 1..NumUsers}
EventIds == {<<101>>}                                \* "e"
UserNames == {<<110>>}                               \* "n"
EventName == <<120>>                                 \* "x"
Capacities == 0..MaxCapacity

(***************************************************************************)
(* The service as a state machine: one action per service method, each a   *)
(* whole call; `last` keeps the call and its outcome.                      *)
(***************************************************************************)
NoCall == [op |-> "none", user_id |-> <<>>, event_id |-> <<>>, result |-> "", detail |-> ""]

Outcome(op, user_id, event_id, r) ==
    [op |-> op, user_id |-> user_id, event_id |-> event_id,
     result |-> r.result, detail |-> r.detail]

\* The callers whose calls may be run one gateway call at a time.
Callers == {"p", "q"}

\* A caller between two calls.
Idle == [pc |-> "idle"]

Init ==
    /\ table = <<>>
    /\ last = NoCall
    /\ recreated = {}
    /\ pending = [p \in Callers |-> Idle]
    /\ events_table = <<>>

CreateUser ==
    \E user_id \in UserIds, name \in UserNames :
        LET r == create_user(table, user_id, name)
        IN  /\ table' = Run(table, r.calls)
            /\ last' = Outcome("create_user", user_id, <<>>, r)
            /\ UNCHANGED <<recreated, pending, events_table>>

CreateEvent ==
    \E event_id \in EventIds, capacity \in Capacities, waitlist_enabled \in BOOLEAN :
        LET r == create_event(table, event_id, EventName, capacity, waitlist_enabled)
        IN  /\ table' = Run(table, r.calls)
            /\ last' = Outcome("create_event", <<>>, event_id, r)
            /\ recreated' = IF ~r.raised /\ EventRepository_get(table, event_id) # None
                            THEN recreated \cup {event_id} ELSE recreated
            /\ UNCHANGED <<pending, events_table>>

RegisterUser ==
    \E user_id \in UserIds, event_id \in EventIds :
        LET r == register_user(table, user_id, event_id)
        IN  /\ table' = Run(table, r.calls)
            /\ last' = Outcome("register_user", user_id, event_id, r)
            /\ UNCHANGED <<recreated, pending, events_table>>

UnregisterUser ==
    \E user_id \in UserIds, event_id \in EventIds :
        LET r == unregister_user(table, user_id, event_id)
        IN  /\ table' = Run(table, r.calls)
            /\ last' = Outcome("unregister_user", user_id, event_id, r)
            /\ UNCHANGED <<recreated, pending, events_table>>

Next == CreateUser \/ CreateEvent \/ RegisterUser \/ UnregisterUser

Spec == Init /\ [][Next]_vars

(***************************************************************************)
(* The same operations over invalid as well as valid arguments: blank ids  *)
(* and names, two names per user, capacity 0.                              *)
(***************************************************************************)
InputUserIds == {UserId(i) : i \in 1..NumInputUsers}
BlankStrings == {<<>>, <<32>>}                       \* "" and " "
InputNames == {<<110>>, <<109>>}                     \* "n", "m"

CreateUserInput ==
    \E user_id \in InputUserIds \cup BlankStrings, name \in InputNames \cup BlankStrings :
        LET r == create_user(table, user_id, name)
        IN  /\ table' = Run(table, r.calls)
            /\ last' = Outcome("create_user", user_id, <<>>, r)
            /\ UNCHANGED <<recreated, pending, events_table>>

RegisterUserInput ==
    \E user_id \in InputUserIds \cup BlankStrings, event_id \in EventIds :
        LET r == register_user(table, user_id, event_id)
        IN  /\ table' = Run(table, r.calls)
            /\ last' = Outcome("register_user", user_id, event_id, r)
            /\ UNCHANGED <<recreated, pending, events_table>>

UnregisterUserInput ==
    \E user_id \in InputUserIds \cup BlankStrings, event_id \in EventIds :
        LET r == unregister_user(table, user_id, event_id)
        IN  /\ table' = Run(table, r.calls)
            /\ last' = Outcome("unregister_user", user_id, event_id, r)
            /\ UNCHANGED <<recreated, pending, events_table>>

NextInputs == CreateUserInput \/ CreateEvent \/ RegisterUserInput \/ UnregisterUserInput

SpecInputs == Init /\ [][NextInputs]_vars

(***************************************************************************)
(* The same operations over two events of capacity 1 with a waitlist, for  *)
(* the lookups of the events of a user.                                    *)
(***************************************************************************)
LookupEventIds == {<<101>>, <<102>>}                 \* "e", "f"
LookupCapacities == {1}

LookupCreateUser ==
    \E user_id \in InputUserIds, name \in UserNames :
        LET r == create_user(table, user_id, name)
        IN  /\ table' = Run(table, r.calls)
            /\ last' = Outcome("create_user", user_id, <<>>, r)
            /\ UNCHANGED <<recreated, pending, events_table>>

LookupCreateEvent ==
    \E event_id \in LookupEventIds, capacity \in LookupCapacities, waitlist_enabled \in {TRUE} :
        LET r == create_event(table, event_id, EventName, capacity, waitlist_enabled)
        IN  /\ table' = Run(table, r.calls)
            /\ last' = Outcome("create_event", <<>>, event_id, r)
            /\ recreated' = IF ~r.raised /\ EventRepository_get(table, event_id) # None
                            THEN recreated \cup {event_id} ELSE recreated
            /\ UNCHANGED <<pending, events_table>>

LookupRegisterUser ==
    \E user_id \in InputUserIds, event_id \in LookupEventIds :
        LET r == register_user(table, user_id, event_id)
        IN  /\ table' = Run(table, r.calls)
            /\ last' = Outcome("register_user", user_id, event_id, r)
            /\ UNCHANGED <<recreated, pending, events_table>>

LookupUnregisterUser ==
    \E user_id \in InputUserIds, event_id \in LookupEventIds :
        LET r == unregister_user(table, user_id, event_id)
        IN  /\ table' = Run(table, r.calls)
            /\ last' = Outcome("unregister_user", user_id, event_id, r)
            /\ UNCHANGED <<recreated, pending, events_table>>

NextLookup ==
    LookupCreateUser \/ LookupCreateEvent \/ LookupRegisterUser \/ LookupUnregisterUser

SpecLookup == Init /\ [][NextLookup]_vars

(***************************************************************************)
(* The gateway called directly, as the repository's tests do:              *)
(* EventRepository.create with an Event that carries members.              *)
(***************************************************************************)
\* The sequences without repeats over a set of users.
RECURSIVE Arrangements(_)
Arrangements(users) ==
    {<<>>} \cup UNION {{<<u>> \o rest : rest \in Arrangements(users \ {u})} : u \in users}

\* Event(event_id, name, capacity, waitlist_enabled, registered_users, waitlist)
\* with lists that hold no user twice.
GatewayUserIds == {UserId(1), UserId(2)}
GatewayEvents ==
    [event_id : EventIds, name : {EventName}, capacity : LookupCapacities,
     waitlist_enabled : {TRUE},
     registered_users : Arrangements(GatewayUserIds), waitlist : Arrangements(GatewayUserIds)]

EventRepositoryCreate ==
    \E event \in GatewayEvents :
        /\ table' = EventRepository_create(table, event)
        /\ last' = [op |-> "EventRepository.create", user_id |-> <<>>,
                    event_id |-> event.event_id, result |-> "Event", detail |-> "",
                    event |-> event]
        /\ recreated' = IF EventRepository_get(table, event.event_id) # None
                        THEN recreated \cup {event.event_id} ELSE recreated
        /\ UNCHANGED <<pending, events_table>>

\* EventRepository.update(event) for an event the table holds ("Update an
\* existing event"), with whatever lists the caller's Event carries.
EventRepositoryUpdate ==
    \E event \in GatewayEvents :
        /\ EventRepository_get(table, event.event_id) # None
        /\ table' = EventRepository_update(table, event)
        /\ last' = [op |-> "EventRepository.update", user_id |-> <<>>,
                    event_id |-> event.event_id, result |-> "Event", detail |-> "",
                    event |-> event]
        /\ UNCHANGED <<recreated, pending, events_table>>

NextGateway == EventRepositoryCreate \/ EventRepositoryUpdate

SpecGateway == Init /\ [][NextGateway]_vars

(***************************************************************************)
(* The operations and the reads: the lookups of a user's events, the       *)
(* registrations of an event, get_user and get_event.                      *)
(***************************************************************************)
ReadOutcome(op, user_id, event_id, r) ==
    [op |-> op, user_id |-> user_id, event_id |-> event_id,
     result |-> r.result, detail |-> r.detail, value |-> r.value]

ReadsRegisterUser ==
    \E user_id \in InputUserIds, event_id \in EventIds :
        LET r == register_user(table, user_id, event_id)
        IN  /\ table' = Run(table, r.calls)
            /\ last' = Outcome("register_user", user_id, event_id, r)
            /\ UNCHANGED <<recreated, pending, events_table>>

ReadsUnregisterUser ==
    \E user_id \in InputUserIds, event_id \in EventIds :
        LET r == unregister_user(table, user_id, event_id)
        IN  /\ table' = Run(table, r.calls)
            /\ last' = Outcome("unregister_user", user_id, event_id, r)
            /\ UNCHANGED <<recreated, pending, events_table>>

GetUserRegistrations ==
    \E user_id \in InputUserIds :
        LET r == Reading(get_user_registrations(table, user_id))
        IN  /\ table' = Run(table, r.calls)
            /\ last' = ReadOutcome("get_user_registrations", user_id, <<>>, r)
            /\ UNCHANGED <<recreated, pending, events_table>>

GetUserWaitlists ==
    \E user_id \in InputUserIds :
        LET r == Reading(get_user_waitlists(table, user_id))
        IN  /\ table' = Run(table, r.calls)
            /\ last' = ReadOutcome("get_user_waitlists", user_id, <<>>, r)
            /\ UNCHANGED <<recreated, pending, events_table>>

GetEventRegistrations ==
    \E event_id \in EventIds :
        LET r == get_event_registrations(table, event_id)
        IN  /\ table' = Run(table, r.calls)
            /\ last' = ReadOutcome("get_event_registrations", <<>>, event_id, r)
            /\ UNCHANGED <<recreated, pending, events_table>>

GetUser ==
    \E user_id \in InputUserIds :
        LET r == Reading(UserRepository_get(table, user_id))
        IN  /\ table' = Run(table, r.calls)
            /\ last' = ReadOutcome("UserRepository.get", user_id, <<>>, r)
            /\ UNCHANGED <<recreated, pending, events_table>>

GetEvent ==
    \E event_id \in EventIds :
        LET r == Reading(EventRepository_get(table, event_id))
        IN  /\ table' = Run(table, r.calls)
            /\ last' = ReadOutcome("EventRepository.get", <<>>, event_id, r)
            /\ UNCHANGED <<recreated, pending, events_table>>

NextReads ==
    \/ LookupCreateUser \/ CreateEvent \/ ReadsRegisterUser \/ ReadsUnregisterUser
    \/ GetUserRegistrations \/ GetUserWaitlists \/ GetEventRegistrations
    \/ GetUser \/ GetEvent

SpecReads == Init /\ [][NextReads]_vars

(***************************************************************************)
(* Calls run one gateway call at a time.  A caller in a register_user      *)
(* calls user_repo.exists, then event_repo.get, then the repository writes *)
(* of the branch taken, one after the other; between two of these calls    *)
(* the other caller may run.                                               *)
(***************************************************************************)
RaceCreateUser ==
    \E user_id \in GatewayUserIds, name \in UserNames :
        LET r == create_user(table, user_id, name)
        IN  /\ table' = Run(table, r.calls)
            /\ last' = Outcome("create_user", user_id, <<>>, r)
            /\ UNCHANGED <<recreated, pending, events_table>>

RaceCreateEvent ==
    \E event_id \in EventIds, capacity \in LookupCapacities, waitlist_enabled \in BOOLEAN :
        LET r == create_event(table, event_id, EventName, capacity, waitlist_enabled)
        IN  /\ table' = Run(table, r.calls)
            /\ last' = Outcome("create_event", <<>>, event_id, r)
            /\ recreated' = IF ~r.raised /\ EventRepository_get(table, event_id) # None
                            THEN recreated \cup {event_id} ELSE recreated
            /\ UNCHANGED <<pending, events_table>>

\* Caller p ends its call with outcome r.
Ended(p, r) ==
    /\ pending' = [pending EXCEPT ![p] = Idle]
    /\ last' = Outcome(pending[p].op, pending[p].user_id, pending[p].event_id, r)

\* A caller enters register_user(user_id, event_id).
RegisterBegin ==
    \E p \in Callers, user_id \in GatewayUserIds, event_id \in EventIds :
        /\ pending[p] = Idle
        /\ pending' = [pending EXCEPT ![p] = [pc |-> "exists", op |-> "register_user",
                                               user_id |-> user_id, event_id |-> event_id]]
        /\ UNCHANGED <<table, last, recreated, events_table>>

\* Line 102: user_repo.exists(user_id).
ReadUser ==
    \E p \in Callers :
        /\ pending[p].pc = "exists"
        /\ IF UserRepository_exists(table, pending[p].user_id)
           THEN /\ pending' = [pending EXCEPT ![p].pc = "get"]
                /\ UNCHANGED last
           ELSE Ended(p, Raises("EntityNotFoundError", "User"))
        /\ UNCHANGED <<table, recreated, events_table>>

\* event_repo.get(event_id) and the decision taken on the event read: an
\* exception, or the repository writes to issue.
ReadEvent ==
    \E p \in Callers :
        /\ pending[p].pc = "get"
        /\ LET event == EventRepository_get(table, pending[p].event_id)
               r == IF pending[p].op = "register_user"
                    THEN register_user_on_event(event, pending[p].user_id)
                    ELSE unregister_user(table, pending[p].user_id, pending[p].event_id)
           IN  IF r.raised
               THEN Ended(p, r)
               ELSE /\ pending' = [pending EXCEPT ![p] =
                            [pc |-> "write", op |-> pending[p].op,
                             user_id |-> pending[p].user_id, event_id |-> pending[p].event_id,
                             event |-> event, result |-> r.result, calls |-> r.calls,
                             done |-> 0]]
                    /\ UNCHANGED last
        /\ UNCHANGED <<table, recreated, events_table>>

\* The next repository write of a caller; the call returns after the last one.
Write ==
    \E p \in Callers :
        /\ pending[p].pc = "write"
        /\ table' = Apply(table, Head(pending[p].calls))
        /\ IF Len(pending[p].calls) = 1
           THEN Ended(p, Returns(pending[p].result, <<>>))
           ELSE /\ pending' = [pending EXCEPT ![p].calls = Tail(@), ![p].done = @ + 1]
                /\ UNCHANGED last
        /\ UNCHANGED <<recreated, events_table>>

NextRace ==
    RaceCreateUser \/ RaceCreateEvent \/ RegisterBegin \/ ReadUser \/ ReadEvent \/ Write

SpecRace == Init /\ [][NextRace]_vars

(***************************************************************************)
(* unregister_user run one gateway call at a time by a caller that may     *)
(* stop between two of its writes; the other operations run whole.         *)
(***************************************************************************)
CrashUserIds == {UserId(1), UserId(2), UserId(3)}

\* Requests are served one at a time: an operation starts when no call is in
\* the middle of its gateway calls.
NoCallInFlight == \A p \in Callers : pending[p].pc \in {"idle", "crashed"}

CrashCreateUser ==
    \E user_id \in CrashUserIds, name \in UserNames :
        LET r == create_user(table, user_id, name)
        IN  /\ NoCallInFlight
            /\ table' = Run(table, r.calls)
            /\ last' = Outcome("create_user", user_id, <<>>, r)
            /\ UNCHANGED <<recreated, pending, events_table>>

CrashCreateEvent ==
    \E event_id \in EventIds, capacity \in LookupCapacities, waitlist_enabled \in {TRUE} :
        LET r == create_event(table, event_id, EventName, capacity, waitlist_enabled)
        IN  /\ NoCallInFlight
            /\ table' = Run(table, r.calls)
            /\ last' = Outcome("create_event", <<>>, event_id, r)
            /\ recreated' = IF ~r.raised /\ EventRepository_get(table, event_id) # None
                            THEN recreated \cup {event_id} ELSE recreated
            /\ UNCHANGED <<pending, events_table>>

CrashRegisterUser ==
    \E user_id \in CrashUserIds, event_id \in EventIds :
        LET r == register_user(table, user_id, event_id)
        IN  /\ NoCallInFlight
            /\ table' = Run(table, r.calls)
            /\ last' = Outcome("register_user", user_id, event_id, r)
            /\ UNCHANGED <<recreated, pending, events_table>>

\* The caller enters unregister_user(user_id, event_id); its first gateway
\* call is event_repo.get.
UnregisterBegin ==
    \E user_id \in CrashUserIds, event_id \in EventIds :
        /\ \A p \in Callers : pending[p] = Idle
        /\ pending' = [pending EXCEPT !["p"] = [pc |-> "get", op |-> "unregister_user",
                                                 user_id |-> user_id, event_id |-> event_id]]
        /\ UNCHANGED <<table, last, recreated, events_table>>

\* The caller stops between two of its writes: the writes done stay, the
\* others are never issued, and this caller makes no further call.
Crash ==
    \E p \in Callers :
        /\ pending[p].pc = "write"
        /\ pending[p].done > 0
        /\ pending' = [pending EXCEPT ![p] = [pc |-> "crashed"]]
        /\ last' = [op |-> "crash", user_id |-> pending[p].user_id,
                    event_id |-> pending[p].event_id, result |-> "", detail |-> "",
                    event |-> pending[p].event, calls |-> pending[p].calls]
        /\ UNCHANGED <<table, recreated, events_table>>

NextCrash ==
    \/ CrashCreateUser \/ CrashCreateEvent \/ CrashRegisterUser
    \/ UnregisterBegin \/ ReadEvent \/ Write \/ Crash

SpecCrash == Init /\ [][NextCrash]_vars

(***************************************************************************)
(* register_user and unregister_user both run one gateway call at a time,  *)
(* one call after the other, by a caller that may stop between two writes. *)
(***************************************************************************)
\* The caller enters register_user(user_id, event_id); its first gateway call
\* is user_repo.exists.
StepRegisterBegin ==
    \E user_id \in CrashUserIds, event_id \in EventIds :
        /\ \A p \in Callers : pending[p] = Idle
        /\ pending' = [pending EXCEPT !["p"] = [pc |-> "exists", op |-> "register_user",
                                                 user_id |-> user_id, event_id |-> event_id]]
        /\ UNCHANGED <<table, last, recreated, events_table>>

NextSteps ==
    \/ CrashCreateUser \/ CrashCreateEvent
    \/ StepRegisterBegin \/ UnregisterBegin \/ ReadUser \/ ReadEvent \/ Write \/ Crash

SpecSteps == Init /\ [][NextSteps]_vars

(***************************************************************************)
(* The same calls without stops: a method runs its gateway calls one after *)
(* the other and each of them returns, so a step that is enabled is taken. *)
(***************************************************************************)
\* ReadEvent can be taken exactly when some caller is at its event_repo.get.
GetPending == \E p \in Callers : pending[p].pc = "get"

NextTerminates ==
    \/ CrashCreateUser \/ CrashCreateEvent
    \/ StepRegisterBegin \/ UnregisterBegin \/ ReadUser \/ ReadEvent \/ Write

SpecTerminates ==
    /\ Init
    /\ [][NextTerminates]_vars
    /\ WF_vars(ReadUser) /\ WF_vars(Write)
    \* weak fairness of ReadEvent, written out with its enabling condition
    /\ ([]<>~GetPending \/ []<><<ReadEvent>>_vars)

(***************************************************************************)
(* unregister_user run one gateway call at a time over four users, so that *)
(* two members remain on the waitlist while the reindexing loop runs.      *)
(***************************************************************************)
ReindexUserIds == {UserId(1), UserId(2), UserId(3), UserId(4)}

ReindexCreateUser ==
    \E user_id \in ReindexUserIds, name \in UserNames :
        LET r == create_user(table, user_id, name)
        IN  /\ NoCallInFlight
            /\ table' = Run(table, r.calls)
            /\ last' = Outcome("create_user", user_id, <<>>, r)
            /\ UNCHANGED <<recreated, pending, events_table>>

ReindexRegisterUser ==
    \E user_id \in ReindexUserIds, event_id \in EventIds :
        LET r == register_user(table, user_id, event_id)
        IN  /\ NoCallInFlight
            /\ table' = Run(table, r.calls)
            /\ last' = Outcome("register_user", user_id, event_id, r)
            /\ UNCHANGED <<recreated, pending, events_table>>

ReindexUnregisterBegin ==
    \E user_id \in ReindexUserIds, event_id \in EventIds :
        /\ \A p \in Callers : pending[p] = Idle
        /\ pending' = [pending EXCEPT !["p"] = [pc |-> "get", op |-> "unregister_user",
                                                 user_id |-> user_id, event_id |-> event_id]]
        /\ UNCHANGED <<table, last, recreated, events_table>>

NextReindex ==
    \/ ReindexCreateUser \/ CrashCreateEvent \/ ReindexRegisterUser
    \/ ReindexUnregisterBegin \/ ReadEvent \/ Write

SpecReindex == Init /\ [][NextReindex]_vars

(***************************************************************************)
(* What a caller sees of the store.                                        *)
(***************************************************************************)
\* get_event(e) on the current table.
Event(e) == EventRepository_get(table, e)

\* The event exists and create_event has been called for it exactly once.
CreatedOnce(e) == Event(e) # None /\ e \notin recreated

\* The stored metadata item of an existing event.
Meta(t, e) == t[<<EventPK(e), S_METADATA>>]

\* The stored waitlist records of an event.
WaitItems(t, e) ==
    {t[k] : k \in {k \in DOMAIN t : k[1] = EventPK(e) /\ BeginsWith(k[2], S_WAIT)}}

\* The stored registration records of an event.
RegItems(t, e) ==
    {t[k] : k \in {k \in DOMAIN t : k[1] = EventPK(e) /\ BeginsWith(k[2], S_REG)}}

NoRepeats(seq) == \A i, j \in 1..Len(seq) : seq[i] = seq[j] => i = j

Range(seq) == {seq[i] : i \in 1..Len(seq)}

\* get_event(e) on table t, and what it lists.
Ev(t, e) == EventRepository_get(t, e)
Registered(t, e) == Ev(t, e).registered_users
Waitlist(t, e) == Ev(t, e).waitlist
IsMember(t, e, u) == u \in Range(Registered(t, e)) \cup Range(Waitlist(t, e))

\* The index of x in a sequence that holds it.
Index(seq, x) == CHOOSE i \in 1..Len(seq) : seq[i] = x

\* a is ahead of b on a waitlist that holds both.
Ahead(wl, a, b) == Index(wl, a) < Index(wl, b)

\* The step is the call op(u, e).
Called(op, u, e) == last'.op = op /\ last'.user_id = u /\ last'.event_id = e

(***************************************************************************)
(* Claims.                                                                 *)
(***************************************************************************)

\* C1: for an event created once, after any sequence of whole register_user /
\* unregister_user calls, get_event never returns more registered users than
\* the event's capacity.
C1_CapacityInvariant ==
    \A e \in EventIds :
        CreatedOnce(e) => Len(Event(e).registered_users) <= Event(e).capacity

\* A register was turned away from a seat (waitlisted) on an event of capacity 2
\* that holds exactly two registered users.
C1_Witness ==
    \E e \in EventIds :
        /\ CreatedOnce(e)
        /\ Event(e).capacity = 2
        /\ Len(Event(e).registered_users) = 2
        /\ last.op = "register_user" /\ last.event_id = e /\ last.result = "waitlisted"

\* C2: for an event created once, no user_id is in registered_users and in the
\* waitlist that get_event reconstructs at the same time.
C2_Disjoint ==
    \A e \in EventIds :
        CreatedOnce(e) => Range(Event(e).registered_users) \cap Range(Event(e).waitlist) = {}

\* An unregister has promoted the head of the waitlist: the event of capacity 1
\* is full again, the leaver is gone and somebody is still waiting.
C2_Witness ==
    \E e \in EventIds :
        /\ CreatedOnce(e)
        /\ last.op = "unregister_user" /\ last.event_id = e /\ last.result = "None"
        /\ Event(e).capacity = 1
        /\ Len(Event(e).registered_users) = 1
        /\ Event(e).waitlist # <<>>
        /\ last.user_id \notin Range(Event(e).registered_users) \cup Range(Event(e).waitlist)

\* C3: for an event created once, no user_id occurs twice in registered_users
\* and none occurs twice in the waitlist; reindexing leaves one waitlist record
\* per user.
C3_NoDuplicates ==
    \A e \in EventIds :
        CreatedOnce(e) =>
            /\ NoRepeats(Event(e).registered_users)
            /\ NoRepeats(Event(e).waitlist)
            /\ \A x, y \in WaitItems(table, e) : x.user_id = y.user_id => x = y

\* An unregister has reindexed a waitlist that is still non-empty.
C3_Witness ==
    \E e \in EventIds :
        /\ CreatedOnce(e)
        /\ last.op = "unregister_user" /\ last.event_id = e /\ last.result = "None"
        /\ \E x \in WaitItems(table, e) : x.position = 0
        /\ Len(Event(e).waitlist) >= 1

\* C4: an event created (once) with waitlist_enabled = false has an empty
\* waitlist and no waitlist record in every reachable state.
C4_NoWaitlistWhenDisabled ==
    \A e \in EventIds :
        (CreatedOnce(e) /\ ~Meta(table, e).waitlist_enabled) =>
            Event(e).waitlist = <<>> /\ WaitItems(table, e) = {}

\* A register on a full event without waitlist has been refused.
C4_Witness ==
    \E e \in EventIds :
        /\ CreatedOnce(e)
        /\ ~Meta(table, e).waitlist_enabled
        /\ Len(Event(e).registered_users) = Event(e).capacity
        /\ last.op = "register_user" /\ last.event_id = e /\ last.result = "EventFullError"
        /\ WaitItems(table, e) = {}

\* C5: register_user(u, e) of an existing user who is not a member of an
\* existing event with a free seat returns 'registered'; u is then registered,
\* the waitlist and every other user's membership are as before and the
\* number of registered users has grown by one.
C5_RegisterWithSeat ==
    [][\A u \in UserIds, e \in EventIds :
        ( /\ Called("register_user", u, e)
          /\ UserRepository_exists(table, u)
          /\ Ev(table, e) # None
          /\ ~IsMember(table, e, u)
          /\ Len(Registered(table, e)) < Ev(table, e).capacity )
        => ( /\ last'.result = "registered"
             /\ u \in Range(Registered(table', e))
             /\ Waitlist(table', e) = Waitlist(table, e)
             /\ WaitItems(table', e) = WaitItems(table, e)
             /\ \A v \in UserIds \ {u} :
                    v \in Range(Registered(table', e)) <=> v \in Range(Registered(table, e))
             /\ Len(Registered(table', e)) = Len(Registered(table, e)) + 1 )
      ]_vars

\* The second seat of an event has just been taken by the caller.
C5_Witness ==
    \E e \in EventIds :
        /\ last.op = "register_user" /\ last.event_id = e /\ last.result = "registered"
        /\ Event(e) # None
        /\ last.user_id \in Range(Event(e).registered_users)
        /\ Len(Event(e).registered_users) = 2
        /\ Event(e).waitlist = <<>>

\* C6: register_user(u, e) of an existing non-member on a full event with
\* waitlist_enabled returns 'waitlisted'; u is then the last of the waitlist,
\* stored with position = the waitlist length before the call; the earlier
\* waitlist records are untouched and registered_users is unchanged.
C6_RegisterWaitlisted ==
    [][\A u \in UserIds, e \in EventIds :
        ( /\ Called("register_user", u, e)
          /\ UserRepository_exists(table, u)
          /\ Ev(table, e) # None
          /\ ~IsMember(table, e, u)
          /\ Len(Registered(table, e)) >= Ev(table, e).capacity
          /\ Ev(table, e).waitlist_enabled )
        => ( /\ last'.result = "waitlisted"
             /\ Waitlist(table', e) = Append(Waitlist(table, e), u)
             /\ \E x \in WaitItems(table', e) :
                    /\ x.user_id = u
                    /\ x.position = Len(Waitlist(table, e))
                    /\ WaitItems(table', e) \ {x} = WaitItems(table, e)
             /\ Registered(table', e) = Registered(table, e) )
      ]_vars

\* The caller has just joined a waitlist behind somebody else.
C6_Witness ==
    \E e \in EventIds :
        /\ last.op = "register_user" /\ last.event_id = e /\ last.result = "waitlisted"
        /\ Event(e) # None
        /\ Len(Event(e).waitlist) = 2
        /\ Event(e).waitlist[2] = last.user_id
        /\ \E x \in WaitItems(table, e) : x.user_id = last.user_id /\ x.position = 1

\* C7: register_user(u, e) of an existing non-member on a full event with
\* waitlist_enabled = false fails with EventFull, and u is neither registered
\* nor waitlisted afterwards.
C7_RegisterEventFull ==
    [][\A u \in UserIds, e \in EventIds :
        ( /\ Called("register_user", u, e)
          /\ UserRepository_exists(table, u)
          /\ Ev(table, e) # None
          /\ ~IsMember(table, e, u)
          /\ Len(Registered(table, e)) >= Ev(table, e).capacity
          /\ ~Ev(table, e).waitlist_enabled )
        => ( /\ last'.result = "EventFullError"
             /\ ~IsMember(table', e, u)
             /\ RegItems(table', e) = RegItems(table, e)
             /\ WaitItems(table', e) = WaitItems(table, e) )
      ]_vars

\* An existing user who is not a member has been refused by an event of
\* capacity 1 without waitlist.
C7_Witness ==
    \E e \in EventIds :
        /\ last.op = "register_user" /\ last.event_id = e /\ last.result = "EventFullError"
        /\ UserRepository_exists(table, last.user_id)
        /\ Event(e) # None
        /\ Event(e).capacity = 1
        /\ Len(Event(e).registered_users) = 1
        /\ ~IsMember(table, e, last.user_id)

\* C8: register_user(u, e) fails with AlreadyRegistered whenever u is in
\* registered_users or in the waitlist of e, and writes nothing.
C8_AlreadyRegistered ==
    [][\A u \in UserIds, e \in EventIds :
        ( /\ Called("register_user", u, e)
          /\ Ev(table, e) # None
          /\ IsMember(table, e, u) )
        => ( /\ last'.result = "AlreadyRegisteredError"
             /\ table' = table )
      ]_vars

\* A user who is on the waitlist has registered again and was refused.
C8_Witness ==
    \E e \in EventIds :
        /\ last.op = "register_user" /\ last.event_id = e
        /\ last.result = "AlreadyRegisteredError"
        /\ Event(e) # None
        /\ last.user_id \in Range(Event(e).waitlist)
        /\ last.user_id \notin Range(Event(e).registered_users)

\* C9: register_user(u, e) fails with EntityNotFound when user u has not been
\* created, and when event e has not been created; no membership record is
\* written.
C9_EntityNotFound ==
    [][\A u \in UserIds, e \in EventIds :
        ( /\ Called("register_user", u, e)
          /\ (~UserRepository_exists(table, u) \/ Ev(table, e) = None) )
        => ( /\ last'.result = "EntityNotFoundError"
             /\ RegItems(table', e) = RegItems(table, e)
             /\ WaitItems(table', e) = WaitItems(table, e)
             /\ table' = table )
      ]_vars

\* A user who was never created has been refused by an existing event that
\* has a free seat.
C9_Witness ==
    \E e \in EventIds :
        /\ last.op = "register_user" /\ last.event_id = e
        /\ last.result = "EntityNotFoundError" /\ last.detail = "User"
        /\ ~UserRepository_exists(table, last.user_id)
        /\ Event(e) # None
        /\ Len(Event(e).registered_users) < Event(e).capacity
        /\ RegItems(table, e) # {}

\* C10: unregister_user(u, e) of a registered user while the waitlist is
\* [w0, ..., wk]: afterwards u is no member, w0 is registered and not
\* waitlisted, the waitlist is [w1, ..., wk] and the number of registered
\* users is as before.
C10_UnregisterPromotes ==
    [][\A u \in UserIds, e \in EventIds :
        ( /\ Called("unregister_user", u, e)
          /\ Ev(table, e) # None
          /\ u \in Range(Registered(table, e))
          /\ Waitlist(table, e) # <<>> )
        => ( /\ last'.result = "None"
             /\ ~IsMember(table', e, u)
             /\ Head(Waitlist(table, e)) \in Range(Registered(table', e))
             /\ Head(Waitlist(table, e)) \notin Range(Waitlist(table', e))
             /\ Waitlist(table', e) = Tail(Waitlist(table, e))
             /\ Len(Registered(table', e)) = Len(Registered(table, e)) )
      ]_vars

\* "a", "b", "c" registered in this order for an event of capacity 1 and "a"
\* has unregistered: "b" holds the seat and "c" waits at position 0.
C10_Witness ==
    \E e \in EventIds :
        /\ last.op = "unregister_user" /\ last.event_id = e /\ last.result = "None"
        /\ last.user_id = UserId(1)
        /\ CreatedOnce(e)
        /\ Event(e).capacity = 1
        /\ Event(e).registered_users = <<UserId(2)>>
        /\ Event(e).waitlist = <<UserId(3)>>
        /\ \A x \in WaitItems(table, e) : x.position = 0

C13_NotRegistered ==
    [][\A u \in UserIds, e \in EventIds :
        /\ ( /\ Called("unregister_user", u, e)
             /\ Ev(table, e) # None
             /\ ~IsMember(table, e, u) )
           => last'.result = "NotRegisteredError"
        /\ ( /\ Called("unregister_user", u, e)
             /\ last'.result = "None" )
           => ( /\ Ev(table', e) # None
                /\ ~IsMember(table', e, u)
                /\ unregister_user(table', u, e).result = "NotRegisteredError" )
      ]_vars

\* A created user who is no member of an existing event, which has members,
\* has been refused.
C13_Witness ==
    \E e \in EventIds :
        /\ last.op = "unregister_user" /\ last.event_id = e
        /\ last.result = "NotRegisteredError"
        /\ UserRepository_exists(table, last.user_id)
        /\ Event(e) # None
        /\ Event(e).registered_users # <<>>
        /\ ~IsMember(table, e, last.user_id)

\* C14: unregister_user(u, e) fails with EntityNotFound (for the event) when e
\* does not exist, whether or not the user u exists; the user is never looked
\* up, so for an existing event and a user that was never created the failure
\* is NotRegistered, not EntityNotFound.
C14_UnregisterEntityNotFound ==
    [][\A u \in UserIds, e \in EventIds :
        /\ ( /\ Called("unregister_user", u, e)
             /\ Ev(table, e) = None )
           => ( /\ last'.result = "EntityNotFoundError"
                /\ last'.detail = "Event" )
        /\ ( /\ Called("unregister_user", u, e)
             /\ Ev(table, e) # None
             /\ ~UserRepository_exists(table, u) )
           => last'.result = "NotRegisteredError"
      ]_vars

\* A user that was never created has been refused with NotRegistered on an
\* existing event.
C14_Witness ==
    \E e \in EventIds :
        /\ last.op = "unregister_user" /\ last.event_id = e
        /\ last.result = "NotRegisteredError"
        /\ ~UserRepository_exists(table, last.user_id)
        /\ Event(e) # None

\* unregister_user has failed for a missing event although the user exists.
C14_WitnessNoEvent ==
    \E e \in EventIds :
        /\ last.op = "unregister_user" /\ last.event_id = e
        /\ last.result = "EntityNotFoundError" /\ last.detail = "Event"
        /\ UserRepository_exists(table, last.user_id)
        /\ Event(e) = None

\* The member an unregister_user(u, e) takes off the waitlist wl: the head,
\* promoted, when u is registered, and u itself when u is waitlisted.
Leaver(t, e, u) ==
    IF u \in Range(Registered(t, e)) THEN Head(Waitlist(t, e)) ELSE u

DomainErrors ==
    { "ValidationError", "DuplicateUserError", "EntityNotFoundError",
      "EventFullError", "AlreadyRegisteredError", "NotRegisteredError" }

\* C16: a create_user, create_event, register_user or unregister_user that
\* fails with a domain error leaves the whole table as it was.
C16_FailureLeavesStore ==
    [][last'.result \in DomainErrors => table' = table]_vars

\* A create_user with a blank name has been refused in a store that holds a
\* user and an event with a member.
C16_Witness ==
    /\ last.op = "create_user" /\ last.result = "ValidationError"
    /\ last.detail = "name cannot be empty"
    /\ \E u \in InputUserIds, e \in EventIds :
           /\ UserRepository_exists(table, u)
           /\ Event(e) # None
           /\ Event(e).registered_users = <<u>>

\* The step is a successful create_user(id, name).
Created(id, name) ==
    /\ Called("create_user", id, <<>>)
    /\ last'.result = "User"
    /\ ~create_user(table, id, name).raised
    /\ table' = Run(table, create_user(table, id, name).calls)

\* C19: user store round trip. get_user(id) is None until a create_user(id,
\* name) succeeds, from that step on it is the user with that user_id and
\* name, and it stays so; user_exists(id) is true exactly when get_user(id)
\* is not None.
C19_UserRoundTrip ==
    [][\A id \in InputUserIds \cup BlankStrings :
        /\ UserRepository_exists(table', id) <=> (UserRepository_get(table', id) # None)
        /\ \A name \in InputNames \cup BlankStrings :
               Created(id, name)
               => UserRepository_get(table', id) = [user_id |-> id, name |-> name]
        /\ ( /\ UserRepository_get(table, id) = None
             /\ UserRepository_get(table', id) # None )
           => \E name \in InputNames : Created(id, name)
        /\ UserRepository_get(table, id) # None
           => UserRepository_get(table', id) # None
      ]_vars

\* "a" has just been created with the name "m" and "b" has not been created:
\* get_user gives the user for "a" and None for "b".
C19_Witness ==
    /\ last.op = "create_user" /\ last.result = "User" /\ last.user_id = UserId(1)
    /\ UserRepository_get(table, UserId(1)) = [user_id |-> UserId(1), name |-> <<109>>]
    /\ UserRepository_exists(table, UserId(1))
    /\ UserRepository_get(table, UserId(2)) = None
    /\ ~UserRepository_exists(table, UserId(2))

\* C20: create_user with the id of an existing user fails with DuplicateUser
\* and a user never changes once created: whatever the step, the stored name
\* stays the name given to the first successful create_user.
C20_DuplicateUser ==
    [][\A id \in InputUserIds \cup BlankStrings :
        /\ ( /\ Called("create_user", id, <<>>)
             /\ UserRepository_exists(table, id) )
           => ( /\ last'.result = "DuplicateUserError"
                /\ table' = table )
        /\ UserRepository_get(table, id) # None
           => UserRepository_get(table', id) = UserRepository_get(table, id)
      ]_vars

\* A create_user for "a", already stored under the name "m", has been refused
\* while "b" is stored under the name "n".
C20_Witness ==
    /\ last.op = "create_user" /\ last.result = "DuplicateUserError"
    /\ last.user_id = UserId(1)
    /\ UserRepository_get(table, UserId(1)) = [user_id |-> UserId(1), name |-> <<109>>]
    /\ UserRepository_get(table, UserId(2)) = [user_id |-> UserId(2), name |-> <<110>>]

\* The ids of a set of events.
Ids(events) == {event.event_id : event \in events}

\* The existing events of the lookups' event ids that satisfy P.
EventsWhere(t, P(_)) == {e \in LookupEventIds : Ev(t, e) # None /\ P(Ev(t, e))}

\* What the two lookups give for u on table t is what get_event shows: the
\* events are the stored ones, each listed once, those which list u as
\* registered or as waitlisted, and no event is in both.
LookupsAgree(t, u) ==
    /\ \A event \in get_user_registrations(t, u) \cup get_user_waitlists(t, u) :
           event = Ev(t, event.event_id)
    /\ \A sk \in {S_REGISTERED, S_WAITLISTED} :
           \A x, y \in GSI1_query(t, UserPK(u), sk) : x.event_id = y.event_id => x = y
    /\ Ids(get_user_registrations(t, u))
           = EventsWhere(t, LAMBDA event : Contains(event.registered_users, u))
    /\ Ids(get_user_waitlists(t, u))
           = EventsWhere(t, LAMBDA event : Contains(event.waitlist, u))
    /\ Ids(get_user_registrations(t, u)) \cap Ids(get_user_waitlists(t, u)) = {}

\* C17: reverse lookup consistency. In every state list_user_registrations(u)
\* gives exactly the events whose registered_users hold u and
\* list_user_waitlists(u) exactly those whose waitlist holds u, never one
\* event in both; and when an unregister promotes p from the waitlist of e,
\* e leaves p's waitlists list and enters p's registrations list.
C17_ReverseLookup ==
    /\ [](\A u \in InputUserIds : LookupsAgree(table, u))
    /\ [][\A p \in InputUserIds, e \in LookupEventIds :
            ( /\ last'.op = "unregister_user" /\ last'.event_id = e /\ last'.result = "None"
              /\ Ev(table, e) # None
              /\ p \in Range(Waitlist(table, e))
              /\ p \in Range(Registered(table', e)) )
            => ( /\ e \in Ids(get_user_waitlists(table, p))
                 /\ e \notin Ids(get_user_registrations(table, p))
                 /\ e \notin Ids(get_user_waitlists(table', p))
                 /\ e \in Ids(get_user_registrations(table', p)) )
       ]_vars

\* "a" is registered for "e" and waitlisted for "f": the registrations list of
\* "a" is "e" only and its waitlists list is "f" only.
C17_Witness ==
    /\ Ids(get_user_registrations(table, UserId(1))) = {<<101>>}
    /\ Ids(get_user_waitlists(table, UserId(1))) = {<<102>>}
    /\ Ev(table, <<101>>) # None /\ Ev(table, <<102>>) # None
    /\ Contains(Registered(table, <<101>>), UserId(1))
    /\ Contains(Waitlist(table, <<102>>), UserId(1))

\* "b" has been promoted on "f" by the unregister of "a" and is still
\* waitlisted for "e": "f" is now in the registrations list of "b".
C17_WitnessPromoted ==
    /\ last.op = "unregister_user" /\ last.event_id = <<102>> /\ last.result = "None"
    /\ last.user_id = UserId(1)
    /\ Ids(get_user_registrations(table, UserId(2))) = {<<102>>}
    /\ Ids(get_user_waitlists(table, UserId(2))) = {<<101>>}

\* The step is an EventRepository.create (of the event last'.event).
GatewayCreated == last'.op = "EventRepository.create" /\ last' # last

\* get(event_id) on table t lists the members of event: the same set of
\* registered users and the same waitlist.
SameMembers(t, event) ==
    /\ Ev(t, event.event_id) # None
    /\ Range(Registered(t, event.event_id)) = Range(event.registered_users)
    /\ Waitlist(t, event.event_id) = event.waitlist

\* C18: membership round trip through the gateway. For any event whose
\* registered_users and waitlist hold no user twice, get(event_id) after
\* create(event) gives the same set of registered users and the same waitlist,
\* as a sequence.
C18_MembershipRoundTrip ==
    [][GatewayCreated => SameMembers(table', last'.event)]_vars

\* C18, for a create on an event id of which the table holds no record: the
\* round trip holds.
C18_RoundTripNewEvent ==
    [][( /\ GatewayCreated
         /\ Ev(table, last'.event_id) = None )
       => SameMembers(table', last'.event)
      ]_vars

\* An event created once with "b" registered and the waitlist <<b, a>> (not in
\* the order of the ids) is read back with these members.
C18_Witness ==
    \E e \in EventIds :
        /\ last.op = "EventRepository.create" /\ last.event_id = e
        /\ last.event.waitlist = <<UserId(2), UserId(1)>>
        /\ CreatedOnce(e)
        /\ Event(e).registered_users = <<UserId(2)>>
        /\ Event(e).waitlist = <<UserId(2), UserId(1)>>

\* create_user on the current table, for the ids and names of SpecInputs.
UserInputs == (InputUserIds \cup BlankStrings) \X (InputNames \cup BlankStrings)

\* A call that fails with ValidationError and asks for no write.
Rejected(r) == r.raised /\ r.result = "ValidationError" /\ r.calls = <<>>

\* C21 as stated: create_user with a blank (empty or whitespace-only) user_id
\* or name fails with ValidationError and create_event with a capacity <= 0
\* fails with ValidationError, nothing being produced or written.
C21_ValidationRejection ==
    /\ \A in \in UserInputs :
           (in[1] \in BlankStrings \/ in[2] \in BlankStrings) => Rejected(create_user(table, in[1], in[2]))
    /\ \A e \in EventIds, capacity \in {-1, 0}, waitlist_enabled \in BOOLEAN :
           Rejected(create_event(table, e, EventName, capacity, waitlist_enabled))

\* C21, amended: as stated, except that create_user with the id of a stored
\* user and a blank name fails with DuplicateUserError, the duplicate check
\* coming before the validation; in every case nothing is produced or written.
C21_ValidationRejectionAmended ==
    /\ \A in \in UserInputs :
           (in[1] \in BlankStrings \/ in[2] \in BlankStrings)
           => LET r == create_user(table, in[1], in[2])
              IN  IF UserRepository_exists(table, in[1])
                  THEN r.raised /\ r.result = "DuplicateUserError" /\ r.calls = <<>>
                  ELSE Rejected(r)
    /\ \A e \in EventIds, capacity \in {-1, 0}, waitlist_enabled \in BOOLEAN :
           Rejected(create_event(table, e, EventName, capacity, waitlist_enabled))

\* A create_user with a whitespace-only user_id has been refused in a store
\* that holds a user and an event.
C21_Witness ==
    /\ last.op = "create_user" /\ last.result = "ValidationError"
    /\ last.detail = "userId cannot be empty"
    /\ last.user_id = <<32>>
    /\ \E u \in InputUserIds, e \in EventIds :
           UserRepository_exists(table, u) /\ Event(e) # None

\* The key of the metadata record of event e.
MetaKey(e) == <<EventPK(e), S_METADATA>>

\* C22: update_event(event) changes only registered_count and waitlist_count
\* of the metadata record of the event: every other record of the table (the
\* registration and waitlist records with their positions among them) and
\* every other field of the metadata record (name, capacity, waitlist_enabled)
\* are as before, so that get_event returns what it returned before, whatever
\* lists the event passed in carries.
C22_UpdateOnlyCounters ==
    [][(last'.op = "EventRepository.update" /\ last' # last)
       => LET e == last'.event_id IN
          /\ DOMAIN table' = DOMAIN table
          /\ \A k \in DOMAIN table \ {MetaKey(e)} : table'[k] = table[k]
          /\ DOMAIN table'[MetaKey(e)] = DOMAIN table[MetaKey(e)]
          /\ \A f \in DOMAIN table[MetaKey(e)] \ {"registered_count", "waitlist_count"} :
                 table'[MetaKey(e)][f] = table[MetaKey(e)][f]
          /\ table'[MetaKey(e)].registered_count = Len(last'.event.registered_users)
          /\ table'[MetaKey(e)].waitlist_count = Len(last'.event.waitlist)
          /\ RegItems(table', e) = RegItems(table, e)
          /\ WaitItems(table', e) = WaitItems(table, e)
          /\ Ev(table', e) = Ev(table, e)
      ]_vars

\* An update with an Event that lists "a" and "b" as registered has set the
\* counter to 2 while the one registration record is still that of "a".
C22_Witness ==
    \E e \in EventIds :
        /\ last.op = "EventRepository.update" /\ last.event_id = e
        /\ last.event.registered_users = <<UserId(1), UserId(2)>>
        /\ Event(e) # None
        /\ Event(e).registered_users = <<UserId(1)>>
        /\ Meta(table, e).registered_count = 2

\* The read operations.
ReadOps ==
    { "get_user_registrations", "get_user_waitlists", "get_event_registrations",
      "UserRepository.get", "EventRepository.get" }

\* C23: list_user_registrations, list_user_waitlists, list_event_registrations,
\* get_user and get_event never change the table, whether they return a value
\* or fail.
C23_ReadsChangeNothing ==
    [][last'.op \in ReadOps => table' = table]_vars

\* list_event_registrations has failed for a missing event in a store that
\* holds a user.
C23_Witness ==
    /\ last.op = "get_event_registrations" /\ last.result = "EntityNotFoundError"
    /\ \E u \in InputUserIds : UserRepository_exists(table, u)

\* list_event_registrations has returned the one registered user of an event
\* with a waitlist.
C23_WitnessValue ==
    /\ last.op = "get_event_registrations" /\ last.result = "value"
    /\ Len(last.value) = 1
    /\ \E e \in EventIds : Event(e) # None /\ Event(e).waitlist # <<>>

\* The users who hold a registration record, or a waitlist record, of e.
UsersOf(items) == {x.user_id : x \in items}

\* C24: list_event_registrations(e) fails with EntityNotFound exactly when the
\* event e does not exist; otherwise it returns exactly the users who hold a
\* registration record of e, each once: no waitlisted user, and no user who
\* has unregistered.
C24_ListEventRegistrations ==
    [][\A e \in EventIds :
        /\ ( /\ last'.op = "get_event_registrations" /\ last'.event_id = e
             /\ last' # last )
           => ( /\ (last'.result = "EntityNotFoundError") <=> (MetaKey(e) \notin DOMAIN table)
                /\ MetaKey(e) \in DOMAIN table
                   => ( /\ last'.result = "value"
                        /\ NoRepeats(last'.value)
                        /\ Range(last'.value) = UsersOf(RegItems(table, e))
                        /\ Range(last'.value) \cap UsersOf(WaitItems(table, e)) = {} ) )
        /\ \A u \in InputUserIds :
               ( /\ Called("unregister_user", u, e)
                 /\ last'.result = "None" )
               => ~Contains(get_event_registrations(table', e).value, u)
      ]_vars

\* list_event_registrations has returned "a" alone for an event where "a" is
\* registered and "b" is waitlisted.
C24_Witness ==
    \E e \in EventIds :
        /\ last.op = "get_event_registrations" /\ last.event_id = e
        /\ last.result = "value" /\ last.value = <<UserId(1)>>
        /\ Event(e) # None
        /\ Event(e).waitlist = <<UserId(2)>>
        /\ UsersOf(RegItems(table, e)) = {UserId(1)}

\* list_event_registrations has failed with EntityNotFound and no event is
\* stored, while both users are.
C24_WitnessNotFound ==
    /\ last.op = "get_event_registrations" /\ last.result = "EntityNotFoundError"
    /\ \A e \in EventIds : Event(e) = None
    /\ \A u \in {UserId(1), UserId(2)} : UserRepository_exists(table, u)

\* C25: registered_users is returned in admission order, whatever the values
\* of the user ids. A user who gets a seat by register_user comes after all
\* who were registered before; on an unregister the others keep their order
\* and a promoted user comes last; list_event_registrations gives the same
\* list as get_event.
C25_AdmissionOrder ==
    [][\A u \in UserIds, e \in EventIds :
        /\ ( /\ Called("register_user", u, e)
             /\ last'.result = "registered" )
           => Registered(table', e) = Append(Registered(table, e), u)
        /\ ( /\ Called("unregister_user", u, e)
             /\ last'.result = "None"
             /\ u \in Range(Registered(table, e)) )
           => Registered(table', e)
                = IF Waitlist(table, e) = <<>>
                  THEN Remove(Registered(table, e), u)
                  ELSE Append(Remove(Registered(table, e), u), Head(Waitlist(table, e)))
        /\ Ev(table', e) # None
           => get_event_registrations(table', e).value = Registered(table', e)
      ]_vars

\* C26: the capacity and the waitlist_enabled flag of an event are fixed at
\* creation: once get_event gives an event for an id, no create_user,
\* create_event (the same event_id again included), register_user or
\* unregister_user changes the capacity or waitlist_enabled it gives.
C26_CapacityAndFlagFixed ==
    [][\A e \in EventIds :
        Ev(table, e) # None
        => ( /\ Ev(table', e) # None
             /\ Ev(table', e).capacity = Ev(table, e).capacity
             /\ Ev(table', e).waitlist_enabled = Ev(table, e).waitlist_enabled )
      ]_vars

\* C26 without create_event on an existing id: create_user, register_user,
\* unregister_user and a create_event that fails change neither.
C26_FixedButForCreateEvent ==
    [][\A e \in EventIds :
        ( /\ Ev(table, e) # None
          /\ ~(last'.op = "create_event" /\ last'.event_id = e /\ last'.result = "Event") )
        => ( /\ Ev(table', e) # None
             /\ Ev(table', e).capacity = Ev(table, e).capacity
             /\ Ev(table', e).waitlist_enabled = Ev(table, e).waitlist_enabled )
      ]_vars

\* Caller p takes its next write step, the repository call fn.
Writes(p, fn) ==
    /\ pending[p].pc = "write"
    /\ Head(pending[p].calls).fn = fn
    /\ pending'[p] # pending[p]
    /\ table' = Apply(table, Head(pending[p].calls))

\* The event holds more registration records than its capacity.
OverCapacity(t, e) ==
    MetaKey(e) \in DOMAIN t /\ Cardinality(RegItems(t, e)) > Meta(t, e).capacity

\* C27: register race. With two register_user calls run one gateway call at a
\* time, a state where the event holds more registration records than its
\* capacity is reachable (C27_Witness), and it arises in this way: the caller
\* whose _add_registration takes the event over its capacity had read an
\* event with a free seat, and a registration has landed between its read and
\* its write.
C27_RegisterRace ==
    [][\A p \in Callers, e \in EventIds :
        ( /\ Writes(p, "_add_registration")
          /\ pending[p].event_id = e
          /\ ~OverCapacity(table, e)
          /\ OverCapacity(table', e) )
        => ( /\ Len(pending[p].event.registered_users) < pending[p].event.capacity
             /\ Cardinality(RegItems(table, e)) > Len(pending[p].event.registered_users) )
      ]_vars

\* Both register_user calls have returned "registered": the event of capacity
\* 1 holds the registration records of "a" and of "b", and its counter says 1.
C27_Witness ==
    \E e \in EventIds :
        /\ \A p \in Callers : pending[p] = Idle
        /\ last.op = "register_user" /\ last.result = "registered"
        /\ CreatedOnce(e)
        /\ Event(e).capacity = 1
        /\ Event(e).registered_users = <<UserId(1), UserId(2)>>
        /\ Meta(table, e).registered_count = 1

\* The records of event e are those of a completed operation: the waitlist
\* positions are 0 .. n-1, one record each, nobody holds both kinds of record,
\* the registration records are within the capacity, and nobody waits while a
\* seat is free.
Settled(t, e) ==
    /\ {x.position : x \in WaitItems(t, e)} = 0..(Cardinality(WaitItems(t, e)) - 1)
    /\ Cardinality(UsersOf(WaitItems(t, e))) = Cardinality(WaitItems(t, e))
    /\ UsersOf(RegItems(t, e)) \cap UsersOf(WaitItems(t, e)) = {}
    /\ Cardinality(RegItems(t, e)) <= Meta(t, e).capacity
    /\ WaitItems(t, e) # {} => Cardinality(RegItems(t, e)) = Meta(t, e).capacity

\* C28: crash during unregister-with-promotion. When unregister_user of a
\* registered user, on an event with a waitlist, stops between two of its
\* gateway writes, the table can be left partially applied (C28_Witness,
\* C28_WitnessHeadWaiting, C28_WitnessGap); and with requests served one at a
\* time this is the only way: while no call is in the middle of its writes,
\* the records of an event are unsettled only after a crash.
C28_CrashLeavesPartialState ==
    \A e \in EventIds :
        ( /\ NoCallInFlight
          /\ MetaKey(e) \in DOMAIN table
          /\ ~Settled(table, e) )
        => \E p \in Callers : pending[p].pc = "crashed"

\* The call has stopped after the waitlist record of the head was deleted and
\* before its registration record was written: the head is no member at all.
C28_Witness ==
    /\ last.op = "crash"
    /\ last.event.registered_users = <<last.user_id>>
    /\ last.event.waitlist # <<>>
    /\ Head(last.calls).fn = "_add_registration"
    /\ ~IsMember(table, last.event_id, Head(last.event.waitlist))
    /\ ~IsMember(table, last.event_id, last.user_id)

\* The call has stopped after the registration record of the leaving user
\* was deleted: the head still waits and the seat is free.
C28_WitnessHeadWaiting ==
    /\ last.op = "crash"
    /\ last.event.registered_users = <<last.user_id>>
    /\ last.event.waitlist # <<>>
    /\ Registered(table, last.event_id) = <<>>
    /\ Waitlist(table, last.event_id) = last.event.waitlist

\* The call has stopped after the promotion and before the reindex: the head
\* is registered and the one user left on the waitlist is stored at position 1.
C28_WitnessGap ==
    /\ last.op = "crash"
    /\ Len(last.event.waitlist) = 2
    /\ Registered(table, last.event_id) = <<Head(last.event.waitlist)>>
    /\ \E x \in WaitItems(table, last.event_id) :
           /\ WaitItems(table, last.event_id) = {x}
           /\ x.user_id = last.event.waitlist[2]
           /\ x.position = 1

\* The state of the pair (e, u): "registered", "waitlisted" or "absent".
PairState(t, e, u) ==
    IF Ev(t, e) = None THEN "absent"
    ELSE IF u \in Range(Registered(t, e)) THEN "registered"
    ELSE IF u \in Range(Waitlist(t, e)) THEN "waitlisted"
    ELSE "absent"

\* C29: the state machine of a pair (event, user) over absent, registered,
\* waitlisted. A step changes the state of (e, u) only from absent to
\* registered or waitlisted by u's own successful register_user with that
\* result, from registered or waitlisted to absent by u's own successful
\* unregister_user, or from waitlisted to registered when u is the head of the
\* waitlist and another, registered, user's unregister_user succeeds. So no
\* step moves a registered user to the waitlist, and a call for user X changes
\* the state of no other user but the one promoted.
C29_PairStateMachine ==
    [][\A u \in UserIds, e \in EventIds :
        PairState(table', e, u) # PairState(table, e, u)
        => \/ /\ PairState(table, e, u) = "absent"
              /\ Called("register_user", u, e)
              /\ last'.result = PairState(table', e, u)
           \/ /\ PairState(table, e, u) \in {"registered", "waitlisted"}
              /\ PairState(table', e, u) = "absent"
              /\ Called("unregister_user", u, e)
              /\ last'.result = "None"
           \/ /\ PairState(table, e, u) = "waitlisted"
              /\ PairState(table', e, u) = "registered"
              /\ u = Head(Waitlist(table, e))
              /\ last'.op = "unregister_user" /\ last'.event_id = e /\ last'.result = "None"
              /\ last'.user_id # u
              /\ PairState(table, e, last'.user_id) = "registered"
      ]_vars

\* "b" has unregistered from an event of capacity 1: "c", the head of the
\* waitlist, is registered and "a" still waits.
C29_Witness ==
    \E e \in EventIds :
        /\ last.op = "unregister_user" /\ last.event_id = e /\ last.result = "None"
        /\ last.user_id = UserId(2)
        /\ CreatedOnce(e)
        /\ PairState(table, e, UserId(1)) = "waitlisted"
        /\ PairState(table, e, UserId(2)) = "absent"
        /\ PairState(table, e, UserId(3)) = "registered"
        /\ Event(e).capacity = 1


-----------------------------------------------------------------------------
\* The event-CRUD module (src/backend/events): its own service and its own
\* table, keyed by eventId.

MaxTextLength == 200
MaxEventCapacity == 100000

valid_statuses == {"draft", "published", "cancelled", "completed", "active"}

\* datetime.fromisoformat / strptime('%Y-%m-%d') on the dates the requests
\* below carry: the first two parse, the third does not.
EventDates == {"2024-12-25", "2024-12-25T10:00:00Z", "2024-13-45"}
DateParses(date) == date \in {"2024-12-25", "2024-12-25T10:00:00Z"}

\* An Optional[str] of a request is the set of its values: {} is None.
\* Python truthiness of it: None and "" are falsy.
Truthy(s) == s # {} /\ s # {<<>>}
TheString(s) == CHOOSE x \in s : TRUE

\* The request model of POST /events: FastAPI answers 422 before the handler
\* runs when a field fails its constraint.
EventCreate_valid(body) ==
    /\ Len(body.title) >= 1 /\ Len(body.title) <= MaxTextLength
    /\ DateParses(body.date)
    /\ body.capacity > 0 /\ body.capacity <= MaxEventCapacity
    /\ body.status \in valid_statuses

\* Event.__post_init__ of the events module: the first failing check raises
\* InvalidEventDataError.
Events_Event_invalid(event) ==
    \/ event.title = <<>> \/ Len(event.title) > MaxTextLength
    \/ ~DateParses(event.date)
    \/ event.capacity <= 0 \/ event.capacity > MaxEventCapacity
    \/ event.status \notin valid_statuses

EventsRepository_get(t, event_id) ==
    IF event_id \in DOMAIN t THEN t[event_id] ELSE None

EventsRepository_exists(t, event_id) == EventsRepository_get(t, event_id) # None

\* put_item: the item replaces whatever is stored under the eventId.
EventsRepository_create(t, event, created_at, updated_at) ==
    LET item == [eventId |-> event.event_id, title |-> event.title,
                 date |-> event.date, capacity |-> event.capacity,
                 status |-> event.status,
                 createdAt |-> created_at, updatedAt |-> updated_at]
    IN [x \in DOMAIN t \cup {event.event_id} |->
            IF x = event.event_id THEN item ELSE t[x]]

EventsRepository_delete(t, event_id) ==
    IF ~EventsRepository_exists(t, event_id)
    THEN [raised |-> TRUE, error |-> "EventNotFoundError", table |-> t]
    ELSE [raised |-> FALSE, error |-> "",
          table |-> [x \in DOMAIN t \ {event_id} |-> t[x]]]

\* EventService.create_event: the id is the supplied one or a generated one,
\* the Event is validated, and the repository stores it.
EventService_create_event(t, event_data, uuid, created_at, updated_at) ==
    LET event_id == IF Truthy(event_data.eventId) THEN TheString(event_data.eventId)
                        ELSE uuid
        event == [event_id |-> event_id, title |-> event_data.title,
                  date |-> event_data.date, capacity |-> event_data.capacity,
                  status |-> event_data.status]
    IN IF Events_Event_invalid(event)
       THEN [raised |-> TRUE, error |-> "InvalidEventDataError", table |-> t,
             event_id |-> event_id]
       ELSE [raised |-> FALSE, error |-> "",
             table |-> EventsRepository_create(t, event, created_at, updated_at),
             event_id |-> event_id]

map_exception_to_http(error) ==
    CASE error = "EventNotFoundError" -> 404
      [] error = "DuplicateEventError" -> 409
      [] error = "InvalidEventDataError" -> 400
      [] OTHER -> 500

\* POST /events
api_create_event(t, body, uuid, created_at, updated_at) ==
    IF ~EventCreate_valid(body)
    THEN [status |-> 422, error |-> "RequestValidationError", table |-> t,
          event_id |-> IF Truthy(body.eventId) THEN TheString(body.eventId) ELSE <<>>]
    ELSE LET r == EventService_create_event(t, body, uuid, created_at, updated_at)
         IN [status |-> IF r.raised THEN map_exception_to_http(r.error) ELSE 201,
             error |-> r.error, table |-> r.table, event_id |-> r.event_id]

\* DELETE /events/{event_id}
api_delete_event(t, event_id) ==
    LET r == EventsRepository_delete(t, event_id)
    IN [status |-> IF r.raised THEN map_exception_to_http(r.error) ELSE 204,
        error |-> r.error, table |-> r.table, event_id |-> event_id]

\* Requests of the event-CRUD specification.
SuppliedEventIds == {{}, {<<>>}, {<<120>>}}
GeneratedEventIds == {<<117>>}
EventTitles == {<<>>, <<116>>, <<115>>}
EventCapacities == {0, 1}
EventStatuses == {"draft", "bogus"}
EventTimes == {1, 2}

EventBodies ==
    [eventId : SuppliedEventIds, title : EventTitles, date : EventDates,
     capacity : EventCapacities, status : EventStatuses]

\* What the table held under the id before the call, kept for the claims.
Answer(op, r, t) ==
    [op |-> op, event_id |-> r.event_id, status |-> r.status, error |-> r.error,
     existed |-> r.event_id \in DOMAIN t,
     before |-> EventsRepository_get(t, r.event_id)]

\* uuid4 draws an id that no stored event carries (122 random bits).
EventsCreateEvent ==
    \E body \in EventBodies, uuid \in GeneratedEventIds,
       created_at \in EventTimes, updated_at \in EventTimes :
        /\ created_at <= updated_at
        /\ Truthy(body.eventId) \/ uuid \notin DOMAIN events_table
        /\ LET r == api_create_event(events_table, body, uuid, created_at, updated_at)
           IN /\ events_table' = r.table
              /\ last' = Answer("events.create_event", r, events_table)
        /\ UNCHANGED <<table, recreated, pending>>

EventsDeleteEvent ==
    \E event_id \in {<<120>>} \cup GeneratedEventIds :
        /\ LET r == api_delete_event(events_table, event_id)
           IN /\ events_table' = r.table
              /\ last' = Answer("events.delete_event", r, events_table)
        /\ UNCHANGED <<table, recreated, pending>>

NextEvents == EventsCreateEvent \/ EventsDeleteEvent

SpecEvents == Init /\ [][NextEvents]_vars

\* C30: in the event-CRUD module, a create request whose payload is accepted
\* and whose eventId is already stored is answered with DuplicateEventError
\* (HTTP 409), and the table of events is left as it was.
C30_DuplicateEventRejected ==
    [][(/\ last'.op = "events.create_event" /\ last' # last
        /\ last'.existed
        /\ last'.status # 422)
       => /\ last'.error = "DuplicateEventError"
          /\ last'.status = 409
          /\ events_table' = events_table]_vars

\* A create request on a stored eventId was answered 201 and the stored event
\* is no longer the one that was there.
C30_Witness ==
    /\ last.op = "events.create_event"
    /\ last.existed
    /\ last.status = 201
    /\ last.event_id \in DOMAIN events_table
    /\ events_table[last.event_id] # last.before


-----------------------------------------------------------------------------
\* C31: register_user evaluates its checks in a fixed order: the user, then
\* the event, then membership, then capacity.  A missing user is named
\* whatever the event is (also when the event is missing too); a missing
\* event is named only for a stored user; a member of the event gets
\* AlreadyRegisteredError whether or not the event is full, and the store is
\* left as it was (no second record); only a non-member reaches the capacity
\* check, whose outcomes are registered, waitlisted and EventFullError.
C31_CheckOrder ==
    [][\A u \in UserIds, e \in EventIds :
        Called("register_user", u, e)
        => IF ~UserRepository_exists(table, u)
           THEN last'.result = "EntityNotFoundError" /\ last'.detail = "User"
                /\ table' = table
           ELSE IF Ev(table, e) = None
           THEN last'.result = "EntityNotFoundError" /\ last'.detail = "Event"
                /\ table' = table
           ELSE IF IsMember(table, e, u)
           THEN last'.result = "AlreadyRegisteredError" /\ table' = table
           ELSE last'.result \in {"registered", "waitlisted", "EventFullError"}
      ]_vars

\* A register_user call for a user and an event that are both missing has
\* failed naming the user.
C31_WitnessBothMissing ==
    /\ last.op = "register_user"
    /\ last.result = "EntityNotFoundError" /\ last.detail = "User"
    /\ ~UserRepository_exists(table, last.user_id)
    /\ Event(last.event_id) = None

\* A registered user of a full event without a waitlist has registered again
\* and was told AlreadyRegisteredError, not EventFullError.
C31_Witness ==
    /\ last.op = "register_user"
    /\ last.result = "AlreadyRegisteredError"
    /\ Event(last.event_id) # None
    /\ is_full(Event(last.event_id))
    /\ ~Event(last.event_id).waitlist_enabled
    /\ last.user_id \in Range(Event(last.event_id).registered_users)

\* A waitlisted user of a full event has registered again, was refused, and
\* is on the waitlist once.
C31_WitnessWaitlisted ==
    /\ last.op = "register_user"
    /\ last.result = "AlreadyRegisteredError"
    /\ Event(last.event_id) # None
    /\ is_full(Event(last.event_id))
    /\ Cardinality({i \in 1..Len(Event(last.event_id).waitlist) :
                        Event(last.event_id).waitlist[i] = last.user_id}) = 1
    /\ Cardinality({k \in DOMAIN table :
                        /\ k[1] = EventPK(last.event_id)
                        /\ BeginsWith(k[2], S_WAIT)
                        /\ table[k].user_id = last.user_id}) = 1

-----------------------------------------------------------------------------
\* The derived predicates of Event, applied to Event values: any positive
\* capacity with any list of registered users (the constructor checks the
\* capacity only, models.py:47-50).

EventValueCapacities == 1..(MaxCapacity + 1)

EventValues ==
    {[event_id |-> <<101>>, name |-> EventName, capacity |-> c,
      waitlist_enabled |-> FALSE, registered_users |-> r, waitlist |-> <<>>] :
        c \in EventValueCapacities,
        r \in Arrangements(UserIds)}

\* An answer not yet computed is the empty set, a computed one {b}.
InitEventValues ==
    /\ table = <<>>
    /\ recreated = {}
    /\ pending = [p \in Callers |-> Idle]
    /\ events_table = <<>>
    /\ \E event \in EventValues :
        last = [op |-> "Event", event |-> event,
                is_full |-> {}, has_available_capacity |-> {}]

IsFull ==
    /\ last.is_full = {}
    /\ last' = [last EXCEPT !.op = "is_full", !.is_full = {is_full(last.event)}]
    /\ UNCHANGED <<table, recreated, pending, events_table>>

HasAvailableCapacity ==
    /\ last.has_available_capacity = {}
    /\ last' = [last EXCEPT !.op = "has_available_capacity",
                            !.has_available_capacity = {has_available_capacity(last.event)}]
    /\ UNCHANGED <<table, recreated, pending, events_table>>

NextEventValues == IsFull \/ HasAvailableCapacity

SpecEventValues == InitEventValues /\ [][NextEventValues]_vars

\* Both predicates have been applied to the Event value.
BothAnswered == last.is_full # {} /\ last.has_available_capacity # {}

\* C32: for every Event value, has_available_capacity() is the negation of
\* is_full(), and is_full() holds exactly when len(registered_users) equals
\* capacity.
C32_DerivedPredicates ==
    /\ BothAnswered
       => last.has_available_capacity = {~b : b \in last.is_full}
    /\ last.is_full # {}
       => last.is_full = {Len(last.event.registered_users) = last.event.capacity}

\* C32, amended: has_available_capacity() is the negation of is_full(), and
\* is_full() holds exactly when len(registered_users) is at least capacity;
\* for an Event value that is not over capacity this is len(registered_users)
\* equal to capacity.
C32_DerivedPredicatesAmended ==
    /\ BothAnswered
       => last.has_available_capacity = {~b : b \in last.is_full}
    /\ last.is_full # {}
       => /\ last.is_full = {Len(last.event.registered_users) >= last.event.capacity}
          /\ Len(last.event.registered_users) <= last.event.capacity
             => last.is_full = {Len(last.event.registered_users) = last.event.capacity}

\* Both predicates were applied to an Event value that holds more registered
\* users than its capacity: it is full and has no seat.
C32_Witness ==
    /\ BothAnswered
    /\ Len(last.event.registered_users) > last.event.capacity
    /\ last.is_full = {TRUE}
    /\ last.has_available_capacity = {FALSE}

\* Both predicates were applied to an Event value exactly at capacity, and to
\* one below it.
C32_WitnessAtCapacity ==
    /\ BothAnswered
    /\ Len(last.event.registered_users) = last.event.capacity
    /\ last.is_full = {TRUE}

C32_WitnessBelowCapacity ==
    /\ BothAnswered
    /\ Len(last.event.registered_users) < last.event.capacity
    /\ last.is_full = {FALSE}
    /\ last.has_available_capacity = {TRUE}

-----------------------------------------------------------------------------
\* The counters of the metadata item agree with the membership records.
CountersAgree(t, e) ==
    /\ Meta(t, e).registered_count = Cardinality(RegItems(t, e))
    /\ Meta(t, e).waitlist_count = Cardinality(WaitItems(t, e))

\* C33: after every completed create_event, register_user and unregister_user
\* call, registered_count of the event's metadata equals the number of its
\* registration records and waitlist_count the number of its waitlist
\* records.
C33_CountersTrackMembership ==
    \A e \in EventIds : Event(e) # None => CountersAgree(table, e)

\* C33 for events created once, and for every event again once register_user
\* or unregister_user has written to it: the counters are off only between a
\* create_event on an id that has members and the next membership change.
C33_CountersButForCreateEvent ==
    /\ \A e \in EventIds : CreatedOnce(e) => CountersAgree(table, e)
    /\ [][\A e \in EventIds :
            ( /\ last'.op \in {"register_user", "unregister_user"}
              /\ last'.event_id = e
              /\ table' # table )
            => CountersAgree(table', e)]_vars

\* An unregister_user with promotion has completed on an event created once
\* and a member still waits: both counters are positive and agree with the
\* records.
C33_Witness ==
    \E e \in EventIds :
        /\ CreatedOnce(e)
        /\ last.op = "unregister_user" /\ last.event_id = e /\ last.result = "None"
        /\ Meta(table, e).registered_count > 0
        /\ Meta(table, e).waitlist_count > 0
        /\ CountersAgree(table, e)

-----------------------------------------------------------------------------
\* C34: for an event created once (so created with no members), after any
\* sequence of completed register_user and unregister_user calls, a
\* non-empty waitlist implies that the number of registered users equals the
\* capacity: nobody waits while a seat is free.
C34_NobodyWaitsWhileSeatFree ==
    \A e \in EventIds :
        (CreatedOnce(e) /\ Event(e).waitlist # <<>>)
        => Len(Event(e).registered_users) = Event(e).capacity

\* An unregister_user call has completed on an event of capacity 1 that
\* held all three users: the leaver is gone, one user still waits and the
\* seat is taken.
C34_Witness ==
    \E e \in EventIds :
        /\ CreatedOnce(e)
        /\ last.op = "unregister_user" /\ last.event_id = e /\ last.result = "None"
        /\ ~IsMember(table, e, last.user_id)
        /\ Event(e).capacity = 1
        /\ Len(Event(e).waitlist) = 1
        /\ Len(Event(e).registered_users) = 1
        /\ Meta(table, e).waitlist_count = 1

-----------------------------------------------------------------------------
\* The users of a set of membership records.
RecordUsers(items) == {x.user_id : x \in items}

\* C35: while a single register_user or unregister_user call runs, after each
\* of its gateway writes (and so wherever it stops) the membership records of
\* an event created once hold no more registered users than the capacity and
\* no user has both a registration and a waitlist record.
C35_WritesKeepMembershipSafe ==
    \A e \in EventIds :
        CreatedOnce(e)
        => /\ Cardinality(RegItems(table, e)) <= Meta(table, e).capacity
           /\ RecordUsers(RegItems(table, e)) \cap RecordUsers(WaitItems(table, e)) = {}

\* An unregister_user with promotion has written the promoted user's
\* registration and has the reindexing and the counters still to write: the
\* event is full again, the promoted user has no waitlist record any more,
\* and registered_count is stale.
C35_Witness ==
    /\ pending["p"].pc = "write"
    /\ pending["p"].op = "unregister_user"
    /\ pending["p"].done = 3
    /\ CreatedOnce(pending["p"].event_id)
    /\ Len(pending["p"].event.waitlist) = 2
    /\ Head(pending["p"].event.waitlist)
         \in RecordUsers(RegItems(table, pending["p"].event_id))
    /\ Head(pending["p"].event.waitlist)
         \notin RecordUsers(WaitItems(table, pending["p"].event_id))
    /\ Cardinality(RegItems(table, pending["p"].event_id))
         = Meta(table, pending["p"].event_id).capacity

\* A register_user call has written the registration record and not yet the
\* counters.
C35_WitnessRegister ==
    /\ pending["p"].pc = "write"
    /\ pending["p"].op = "register_user"
    /\ pending["p"].done = 1
    /\ CreatedOnce(pending["p"].event_id)
    /\ pending["p"].user_id \in RecordUsers(RegItems(table, pending["p"].event_id))
    /\ Meta(table, pending["p"].event_id).registered_count
         < Cardinality(RegItems(table, pending["p"].event_id))

\* A register_user call has written the waitlist record and not yet the
\* counters.
C35_WitnessWaitlist ==
    /\ pending["p"].pc = "write"
    /\ pending["p"].op = "register_user"
    /\ pending["p"].done = 1
    /\ CreatedOnce(pending["p"].event_id)
    /\ pending["p"].user_id \in RecordUsers(WaitItems(table, pending["p"].event_id))

-----------------------------------------------------------------------------
\* The position encoding, applied to chosen positions: two waitlist records
\* of one event are written with _add_to_waitlist, the one with the smaller
\* position first, and read back with _get_waitlist.  The records stand for
\* two members of a waitlist as long as the larger position requires.

SamplePositions == {0, 1, 9, 10, 99999, 100000, 100001}
SampleEventId == <<101>>

WaitlistSamples ==
    {s \in [first : [position : SamplePositions, user_id : GatewayUserIds],
            second : [position : SamplePositions, user_id : GatewayUserIds]] :
        /\ s.first.position < s.second.position
        /\ s.first.user_id # s.second.user_id}

InitPositions ==
    /\ table = <<>>
    /\ recreated = {}
    /\ pending = [p \in Callers |-> Idle]
    /\ events_table = <<>>
    /\ \E s \in WaitlistSamples :
        last = [op |-> "sample", first |-> s.first, second |-> s.second,
                added |-> 0, waitlist |-> <<>>]

AddToWaitlist ==
    /\ last.added < 2
    /\ LET record == IF last.added = 0 THEN last.first ELSE last.second
       IN  table' = _add_to_waitlist(table, SampleEventId, record.user_id, record.position)
    /\ last' = [last EXCEPT !.op = "_add_to_waitlist", !.added = @ + 1]
    /\ UNCHANGED <<recreated, pending, events_table>>

GetWaitlist ==
    /\ last.added = 2
    /\ last.op # "_get_waitlist"
    /\ last' = [last EXCEPT !.op = "_get_waitlist",
                            !.waitlist = _get_waitlist(table, SampleEventId)]
    /\ UNCHANGED <<table, recreated, pending, events_table>>

NextPositions == AddToWaitlist \/ GetWaitlist

SpecPositions == InitPositions /\ [][NextPositions]_vars

\* C36: the order of the stored sort keys agrees with the numeric order of
\* the positions for every waitlist length: _get_waitlist returns the member
\* with the smaller position first, also when a position is 100000 or more.
C36_PositionOrder ==
    last.op = "_get_waitlist"
    => last.waitlist = <<last.first.user_id, last.second.user_id>>

\* C36 below the padded width, and wherever the two positions have the same
\* number of digits: there the order of the keys is the order of the
\* positions.
C36_PositionOrderWithinWidth ==
    ( /\ last.op = "_get_waitlist"
      /\ \/ last.second.position < 10 ^ PadWidth
         \/ last.first.position >= 10 ^ PadWidth )
    => last.waitlist = <<last.first.user_id, last.second.user_id>>

\* The member at position 100000 is returned ahead of the member at 99999.
C36_Witness ==
    /\ last.op = "_get_waitlist"
    /\ last.first.position = 10 ^ PadWidth - 1
    /\ last.second.position = 10 ^ PadWidth
    /\ last.waitlist = <<last.second.user_id, last.first.user_id>>

-----------------------------------------------------------------------------
\* The gateway calls of the call in flight: those made and those still to
\* make (exists and get come before the writes).
GatewayCalls(c) ==
    (IF c.op = "register_user" THEN 2 ELSE 1) + c.done + Len(c.calls)

\* The waitlist members that stay waiting when the call in flight is an
\* unregister_user: all but the promoted head or the waitlisted leaver.
Remaining(c) == IF c.event.waitlist = <<>> THEN 0 ELSE Len(c.event.waitlist) - 1

\* C37: every register_user and unregister_user call that has begun ends;
\* register_user makes at most 4 gateway calls and unregister_user at most 5
\* (3 when the leaver was waitlisted) plus two for each waitlist member that
\* remains; and the call ends with its result or with one of the domain
\* errors.
C37_Terminates ==
    /\ [](\A p \in Callers :
            pending[p].pc = "write"
            => GatewayCalls(pending[p])
                 <= IF pending[p].op = "register_user" THEN 4
                    ELSE (IF Contains(pending[p].event.registered_users, pending[p].user_id)
                          THEN 5 ELSE 3)
                         + 2 * Remaining(pending[p]))
    /\ [][\A p \in Callers :
            (pending[p] # Idle /\ pending'[p] = Idle)
            => /\ last'.op = pending[p].op
               /\ last'.user_id = pending[p].user_id
               /\ last'.result \in {"registered", "waitlisted", "None"} \cup DomainErrors
               /\ last'.result = "None" <=> pending[p].op = "unregister_user"
                                            /\ last'.result \notin DomainErrors]_vars
    /\ \A p \in Callers : (pending[p] # Idle) ~> (pending[p] = Idle)

\* An unregister_user of the registered user of an event with two users
\* waiting has made its five writes of membership records and has the update
\* of the counters left: 7 gateway calls, 5 plus two for the member who stays
\* on the waitlist.
C37_Witness ==
    /\ pending["p"].pc = "write"
    /\ pending["p"].op = "unregister_user"
    /\ pending["p"].done = 5
    /\ Len(pending["p"].calls) = 1
    /\ Head(pending["p"].calls).fn = "EventRepository.update"
    /\ Len(pending["p"].event.waitlist) = 2

\* Such a call has ended.
C37_WitnessEnded ==
    /\ pending["p"] = Idle
    /\ last.op = "unregister_user" /\ last.result = "None"
    /\ Event(last.event_id) # None
    /\ Len(Event(last.event_id).waitlist) = 1
    /\ Len(Event(last.event_id).registered_users) = 1
    /\ last.user_id \notin Range(Event(last.event_id).registered_users)

-----------------------------------------------------------------------------
\* s lists some of the members of t, each once, in the order t has them.
IsSubsequence(s, t) ==
    /\ NoRepeats(s)
    /\ Range(s) \subseteq Range(t)
    /\ \A i, j \in 1..Len(s) : i < j => Index(t, s[i]) < Index(t, s[j])

\* The waitlist the call in flight will leave: the one it read without the
\* promoted head or the waitlisted leaver.
FinalWaitlist(c) ==
    IF Contains(c.event.registered_users, c.user_id)
    THEN Tail(c.event.waitlist)
    ELSE Remove(c.event.waitlist, c.user_id)

\* The reindexing loop of the call in flight has been reached: the removed
\* member's records are written (three writes when a registered user leaves
\* and the head is promoted, one when a waitlisted user leaves).
InReindexLoop(c) ==
    /\ c.pc = "write" /\ c.op = "unregister_user"
    /\ c.event.waitlist # <<>>
    /\ c.done >= (IF Contains(c.event.registered_users, c.user_id) THEN 3 ELSE 1)

\* C38: during the reindexing loop of unregister_user, after every delete and
\* every re-add, the waitlist records of the event have pairwise distinct
\* positions, and get_event returns a subsequence of the final waitlist: the
\* members present, in the order they had before the removal.
C38_ReindexKeepsOrder ==
    \A p \in Callers :
        InReindexLoop(pending[p])
        => /\ \A x, y \in WaitItems(table, pending[p].event_id) :
                x # y => x.position # y.position
           /\ IsSubsequence(Waitlist(table, pending[p].event_id),
                            FinalWaitlist(pending[p]))
           /\ IsSubsequence(FinalWaitlist(pending[p]), pending[p].event.waitlist)

\* The registered user of an event with three users waiting is leaving: the
\* first remaining member has been re-added at position 0 and the second
\* still has its old position 2.
C38_Witness ==
    /\ InReindexLoop(pending["p"])
    /\ Len(pending["p"].event.waitlist) = 3
    /\ pending["p"].done = 5
    /\ Len(Waitlist(table, pending["p"].event_id)) = 2
    /\ {x.position : x \in WaitItems(table, pending["p"].event_id)} = {0, 2}

\* Between the delete and the re-add of a remaining member a reader sees the
\* waitlist without it: one member of the two that will remain.
C38_WitnessGap ==
    /\ InReindexLoop(pending["p"])
    /\ Len(FinalWaitlist(pending["p"])) = 2
    /\ Len(Waitlist(table, pending["p"].event_id)) = 1
    /\ Head(pending["p"].calls).fn = "_add_to_waitlist"
=============================================================================
